---- MODULE Spec2Model ----
(***************************************************************************)
(* A model of aws_lambda_layer: the layer pipeline of layer.py             *)
(* (get_latest_layer_version, is_current_layer_the_same_as_latest_one,     *)
(* build_layer_artifacts, upload_layer_artifacts, publish_layer,           *)
(* deploy_layer), the path derivations of context.py and the permission    *)
(* helpers grant_layer_permission / revoke_layer_permission.               *)
(*                                                                         *)
(* Remote state is one S3 bucket (a function from key to object) and the   *)
(* Lambda layer service (per layer name the published versions, per layer  *)
(* version its permission statements).  Callers are processes that run the *)
(* operations step by step, one remote call per step, so that invocations  *)
(* of independent callers interleave.                                      *)
(***************************************************************************)
EXTENDS Integers, Sequences, FiniteSets, TLC

(***************************************************************************)
(* Bounds of the model.                                                    *)
(***************************************************************************)
MaxCalls == 2

(***************************************************************************)
(* Program constants.                                                      *)
(***************************************************************************)
ZFILL == 6

Procs == {"p1", "p2"}
LayerNames == {"L1", "L2"}

\* contents of requirements.txt, one element per byte: "a\n", "a\r\n", "b\n"
CR == "\\r"
LF == "\\n"
Manifests == {<<"a", LF>>, <<"a", CR, LF>>, <<"b", LF>>}

S3Root == "s3://bucket/lambda/"
ArnPrefix == "arn:aws:lambda:us-east-1:111122223333:layer:"

\* Optional values: None is the empty sequence, a value v is <<v>>
None == <<>>
Some(v) == <<v>>

\* a is a prefix of b (sequences, strings)
IsPrefix(a, b) == Len(a) <= Len(b) /\ a = SubSeq(b, 1, Len(a))

\* the entries of a local directory tree: a file with its bytes, a directory, or
\* something that is neither
File(b) == [type |-> "file", bytes |-> b]
Dir == [type |-> "dir"]
Other == [type |-> "other"]

(***************************************************************************)
(* Text conversions.                                                       *)
(***************************************************************************)
DigitChar(d) ==
    CASE d = 0 -> "0" [] d = 1 -> "1" [] d = 2 -> "2" [] d = 3 -> "3"
      [] d = 4 -> "4" [] d = 5 -> "5" [] d = 6 -> "6" [] d = 7 -> "7"
      [] d = 8 -> "8" [] d = 9 -> "9"

DigitVal(c) ==
    CASE c = "0" -> 0 [] c = "1" -> 1 [] c = "2" -> 2 [] c = "3" -> 3
      [] c = "4" -> 4 [] c = "5" -> 5 [] c = "6" -> 6 [] c = "7" -> 7
      [] c = "8" -> 8 [] c = "9" -> 9

\* str(n) of a non-negative int
RECURSIVE StrOfInt(_)
StrOfInt(n) ==
    IF n < 10 THEN DigitChar(n)
    ELSE StrOfInt(n \div 10) \o DigitChar(n % 10)

\* int(s) of a string of decimal digits
RECURSIVE IntOfStr(_)
IntOfStr(s) ==
    IF Len(s) = 1 THEN DigitVal(s)
    ELSE 10 * IntOfStr(SubSeq(s, 1, Len(s) - 1)) + DigitVal(SubSeq(s, Len(s), Len(s)))

\* s.zfill(width)
\* faulty variant: the zeros are appended instead of prepended
RECURSIVE ZfillRight(_, _)
ZfillRight(s, width) ==
    IF Len(s) >= width THEN s ELSE ZfillRight(s \o "0", width)

RECURSIVE Zfill(_, _)
Zfill(s, width) ==
    IF Len(s) >= width THEN s ELSE Zfill("0" \o s, width)

\* s.split(":")[-1]
RECURSIVE LastSegment(_)
LastSegment(s) ==
    IF Len(s) = 0 THEN ""
    ELSE IF SubSeq(s, Len(s), Len(s)) = ":" THEN ""
    ELSE LastSegment(SubSeq(s, 1, Len(s) - 1)) \o SubSeq(s, Len(s), Len(s))

\* pathlib.Path.read_text(): the file is opened in text mode, where universal
\* newlines translate "\r\n" and "\r" to "\n"
RECURSIVE LocalReadText(_)
LocalReadText(b) ==
    IF b = <<>> THEN <<>>
    ELSE IF Head(b) = CR
         THEN IF Len(b) >= 2 /\ b[2] = LF
              THEN <<LF>> \o LocalReadText(SubSeq(b, 3, Len(b)))
              ELSE <<LF>> \o LocalReadText(Tail(b))
         ELSE <<Head(b)>> \o LocalReadText(Tail(b))

\* S3Path.read_text(): the object's bytes, decoded (one code point per ASCII byte)
S3ReadText(b) == [i \in 1..Len(b) |-> b[i]]

\* hashes.of_bytes: the hex digest stands for the bytes it was computed from; it
\* is text itself, so that digests can be joined and hashed again
HashOfBytes(b) == <<"sha256(">> \o b \o <<")">>

(***************************************************************************)
(* BuildContext: the derived S3 paths (context.py).                        *)
(***************************************************************************)
s3dir_tmp(s3dir_lambda) == s3dir_lambda \o "tmp/"

s3path_tmp_layer_zip(s3dir_lambda) == s3dir_tmp(s3dir_lambda) \o "layer.zip"

s3path_tmp_layer_requirements_txt(s3dir_lambda) ==
    s3dir_tmp(s3dir_lambda) \o "requirements.txt"

s3dir_layer(s3dir_lambda) == s3dir_lambda \o "layer/"

s3path_tmp_source_zip(s3dir_lambda) == s3dir_tmp(s3dir_lambda) \o "source.zip"

s3dir_source(s3dir_lambda) == s3dir_lambda \o "source/"

\* faulty variant: the version directory is put under the root, not under source/
get_s3dir_source_flat(s3dir_lambda, version) == s3dir_lambda \o version \o "/"

get_s3dir_source(s3dir_lambda, version) == s3dir_source(s3dir_lambda) \o version \o "/"

get_s3path_layer_zip(s3dir_lambda, version) ==
    s3dir_layer(s3dir_lambda) \o Zfill(StrOfInt(version), ZFILL) \o "/layer.zip"

\* faulty variant: the version segment is not padded
get_s3path_layer_requirements_txt_unpadded(s3dir_lambda, version) ==
    s3dir_layer(s3dir_lambda) \o StrOfInt(version) \o "/requirements.txt"

get_s3path_layer_requirements_txt(s3dir_lambda, version) ==
    s3dir_layer(s3dir_lambda) \o Zfill(StrOfInt(version), ZFILL) \o "/requirements.txt"

(***************************************************************************)
(* State.                                                                  *)
(***************************************************************************)
VARIABLES
    s3,            \* the bucket: key -> body of the object stored there
    lambdaLayers,  \* layer name -> the archives of its published versions, 1..latest
    pc,            \* caller -> the step it is at
    args,          \* caller -> the arguments of its current call
    latest,        \* caller -> latest_layer_version as queried by the current run
    dirBuild,      \* caller -> its local build directory
    response,      \* caller -> LayerVersionArn returned by publish_layer_version
    ret,           \* caller -> outcome of its last completed call
    trace,         \* caller -> the steps its current run has taken, in order
    same,          \* caller -> the operation of its previous call, when that call
                   \*   succeeded and the current call has the same arguments, else ""
    quiet,         \* caller -> no other caller wrote remotely since its last call began
    calls,         \* number of calls started so far
    policy,        \* the permission statements of the layer version: Sid -> statement
    revision,      \* the revision of that policy, changed by every change to it
    before,        \* caller -> the policy (permission calls) or the bucket (source
                   \*   pipeline calls) as it was when its current call began
    srcBuild,      \* caller -> its local build directory as the source pipeline uses it
    cwd,           \* caller -> the working directory of its process
    locals,        \* caller -> the local variables of its source pipeline run
    touched,       \* the S3 keys the pipelines have read or written so far
    input,         \* the arguments a library function is applied to
    output         \* what the function returned for them

vars == <<s3, lambdaLayers, pc, args, latest, dirBuild, response, ret, trace,
          same, quiet, calls, policy, revision, before, srcBuild, cwd, locals, touched,
          input, output>>

layerVars == <<s3, lambdaLayers, latest, dirBuild, response>>
permissionVars == <<policy, revision, before>>
sourceVars == <<srcBuild, cwd, locals>>
functionVars == <<input, output>>

EmptyDir == [layer_zip |-> None, python |-> None]

\* the build directory before the source pipeline ran: no deploy/, no source.zip
NoSourceDir == [deploy |-> None, source_zip |-> None]

\* the directory the caller's process starts in
StartDir == "/home/user"

\* no temp_cwd entered, no hash computed yet
NoLocals == [cwd |-> None, source_sha256 |-> None]

\* the remote services and the callers before any call
InitPipelines ==
    /\ s3 = <<>>
    /\ lambdaLayers = [n \in LayerNames |-> <<>>]
    /\ pc = [p \in Procs |-> "idle"]
    /\ args = [p \in Procs |-> [op |-> ""]]
    /\ latest = [p \in Procs |-> None]
    /\ dirBuild = [p \in Procs |-> EmptyDir]
    /\ response = [p \in Procs |-> ""]
    /\ ret = [p \in Procs |-> [kind |-> "nothing", repeat |-> ""]]
    /\ trace = [p \in Procs |-> <<>>]
    /\ same = [p \in Procs |-> ""]
    /\ quiet = [p \in Procs |-> TRUE]
    /\ calls = 0
    /\ policy = <<>>
    /\ revision = 0
    /\ before = [p \in Procs |-> <<>>]
    /\ srcBuild = [p \in Procs |-> NoSourceDir]
    /\ cwd = [p \in Procs |-> StartDir]
    /\ locals = [p \in Procs |-> NoLocals]
    /\ touched = {}

Init ==
    /\ InitPipelines
    /\ input = None
    /\ output = None

(***************************************************************************)
(* The remote services.                                                    *)
(***************************************************************************)
S3Exists(bucket, key) == key \in DOMAIN bucket

S3Put(bucket, key, body) == (key :> body) @@ bucket

\* lambda_client.list_layer_versions(LayerName, MaxItems=1): latest first
list_layer_versions(layers, layer_name) ==
    IF Len(layers[layer_name]) = 0 THEN <<>>
    ELSE <<[Version |-> Len(layers[layer_name])]>>

\* lambda_client.publish_layer_version: the next version of that layer
PublishedArn(layers, layer_name) ==
    ArnPrefix \o layer_name \o ":" \o StrOfInt(Len(layers[layer_name]) + 1)

Successful == {"None", "LayerDeployment", "AddResponse", "RemoveResponse"}

\* every remote write by p is seen by the other callers
Disturb(p) == [q \in Procs |-> IF q = p THEN quiet[q] ELSE FALSE]

\* the arguments of a call, whatever the operation called
Params(a) == [f \in DOMAIN a \ {"op"} |-> a[f]]

\* what `same` is for a call with the arguments a
SameAs(p, a) ==
    IF Params(a) = Params(args[p]) /\ ret[p].kind \in Successful /\ quiet[p]
    THEN args[p].op ELSE ""

\* p's call ends with outcome r; the locals of the call are gone.  The outcome
\* remembers whether the call repeated p's previous, successful call with no other
\* caller writing to the remote state since that previous call began
Finish(p, r) ==
    /\ pc' = [pc EXCEPT ![p] = "idle"]
    /\ ret' = [ret EXCEPT ![p] = r @@ [repeat |-> IF quiet[p] THEN same[p] ELSE ""]]
    /\ UNCHANGED quiet
    /\ latest' = [latest EXCEPT ![p] = None]
    /\ response' = [response EXCEPT ![p] = ""]
    /\ trace' = [trace EXCEPT ![p] = <<>>]

Raised(e) == [kind |-> "raised", error |-> e]

(***************************************************************************)
(* get_latest_layer_version                                                *)
(***************************************************************************)
get_latest_layer_version(layers, layer_name) ==
    LET res == list_layer_versions(layers, layer_name)
    IN  IF Len(res) # 0 THEN Some(res[1].Version) ELSE None

(***************************************************************************)
(* is_current_layer_the_same_as_latest_one                                 *)
(***************************************************************************)
is_current_layer_the_same_as_latest_one(bucket, latest_layer_version, requirements, s3dir_lambda) ==
    IF latest_layer_version = None THEN FALSE
    ELSE LET s3path == get_s3path_layer_requirements_txt(
                           s3dir_lambda, latest_layer_version[1])
         IN  IF ~S3Exists(bucket, s3path) THEN FALSE
             ELSE LocalReadText(requirements) = S3ReadText(bucket[s3path])

(***************************************************************************)
(* deploy_layer, step by step.                                             *)
(***************************************************************************)
\* p moves on to the step `next`, having taken the step `name`
Goto(p, next, name) ==
    /\ pc' = [pc EXCEPT ![p] = next]
    /\ trace' = [trace EXCEPT ![p] = Append(@, name)]
    /\ UNCHANGED ret

\* a caller invokes deploy_layer(layer_name, path_requirements, ...)
CallDeployLayer(p) ==
    /\ pc[p] = "idle"
    /\ calls < MaxCalls
    /\ \E n \in LayerNames, m \in Manifests :
         LET a == [op |-> "deploy_layer", layer_name |-> n, requirements |-> m]
         IN  /\ args' = [args EXCEPT ![p] = a]
             /\ same' = [same EXCEPT ![p] = SameAs(p, a)]
    /\ quiet' = [quiet EXCEPT ![p] = TRUE]
    /\ pc' = [pc EXCEPT ![p] = "query"]
    /\ calls' = calls + 1
    /\ UNCHANGED <<s3, lambdaLayers, latest, dirBuild, response, ret, trace, permissionVars, touched, sourceVars, functionVars>>

\* latest_layer_version = get_latest_layer_version(bsm, layer_name)
QueryLatest(p) ==
    /\ pc[p] = "query"
    /\ latest' = [latest EXCEPT ![p] =
                     get_latest_layer_version(lambdaLayers, args[p].layer_name)]
    /\ Goto(p, "decide", "query")
    /\ UNCHANGED <<s3, lambdaLayers, args, dirBuild, response, same, quiet, calls, permissionVars, touched, sourceVars, functionVars>>

\* faulty variant: the local build directory is cleared before the decision is taken
DecideAfterCleanup(p) ==
    /\ pc[p] = "decide"
    /\ dirBuild' = [dirBuild EXCEPT ![p] = EmptyDir]
    /\ IF is_current_layer_the_same_as_latest_one(
              s3, latest[p], args[p].requirements, S3Root)
       THEN Finish(p, [kind |-> "None"])
       ELSE /\ Goto(p, "build", "decide")
            /\ UNCHANGED <<latest, response, quiet>>
    /\ touched' = touched \cup
           (IF latest[p] = None THEN {}
            ELSE {get_s3path_layer_requirements_txt(S3Root, latest[p][1])})
    /\ UNCHANGED <<s3, lambdaLayers, args, same, calls, permissionVars, sourceVars, functionVars>>

\* if is_current_layer_the_same_as_latest_one(...): return None
Decide(p) ==
    /\ pc[p] = "decide"
    /\ IF is_current_layer_the_same_as_latest_one(
              s3, latest[p], args[p].requirements, S3Root)
       THEN Finish(p, [kind |-> "None"])
       ELSE /\ Goto(p, "build", "decide")
            /\ UNCHANGED <<latest, response, quiet>>
    /\ touched' = touched \cup
           (IF latest[p] = None THEN {}
            ELSE {get_s3path_layer_requirements_txt(S3Root, latest[p][1])})
    /\ UNCHANGED <<s3, lambdaLayers, args, dirBuild, same, calls, permissionVars, sourceVars, functionVars>>

\* the archive zip makes of the entries it is given
ZipOf(installed) == <<"zip", installed>>

\* the packages pip installs for a manifest: the package it names and what that
\* package depends on
Requires(requirements) ==
    IF requirements[1] = "a" THEN {"a", "boto3"} ELSE {"b", "pytest_cov"}

\* python/ after pip install -r requirements.txt -t ${dir_build}/python
PythonTree(requirements) ==
    LET dirs == {"python/" \o k : k \in Requires(requirements)}
        files == {d \o "/__init__.py" : d \in dirs}
    IN  [q \in {"python"} \cup dirs \cup files |->
            IF q \in files THEN File(<<"py">>) ELSE Dir]

\* the build directory of p: what the layer pipeline and the source pipeline have
\* left in it
BuildDirTree(p) ==
    (IF dirBuild[p].layer_zip = None THEN <<>>
     ELSE "layer.zip" :> File(dirBuild[p].layer_zip[1]))
    @@ (IF dirBuild[p].python = None THEN <<>> ELSE dirBuild[p].python[1])
    @@ (IF srcBuild[p].source_zip = None THEN <<>>
        ELSE "source.zip" :> File(srcBuild[p].source_zip[1]))
    @@ (IF srcBuild[p].deploy = None THEN <<>> ELSE srcBuild[p].deploy[1])

\* glob.glob("*") in the directory: the names of its entries
HasSlash(path) == \E i \in 1..Len(path) : SubSeq(path, i, i) = "/"
glob_star(tree) == {q \in DOMAIN tree : ~HasSlash(q)}

ignore_package_list ==
    <<"boto3", "botocore", "s3transfer", "setuptools", "pip", "wheel", "twine",
      "_pytest", "pytest">>

\* the -x patterns python/{package}*: "*" matches any run of characters
zip_excluded(path) ==
    \E i \in 1..Len(ignore_package_list) :
        IsPrefix("python/" \o ignore_package_list[i], path)

\* faulty variant: only python is given to zip
zip_python_only(tree, names) ==
    LET entries == {q \in DOMAIN tree :
                       /\ q = "python" \/ IsPrefix("python/", q)
                       /\ ~zip_excluded(q)}
    IN  ZipOf([q \in entries |-> tree[q]])

\* zip layer.zip -r names -x patterns: the entries named, what is below them, but
\* the excluded ones
zip_recursive(tree, names) ==
    LET entries == {q \in DOMAIN tree :
                       /\ \E n \in names : q = n \/ IsPrefix(n \o "/", q)
                       /\ ~zip_excluded(q)}
    IN  ZipOf([q \in entries |-> tree[q]])

\* faulty variant: a failed install is tried once more
InstallLayerRetrying(p) ==
    /\ pc[p] = "build"
    /\ \E ok \in BOOLEAN :
         IF ok
         THEN /\ dirBuild' = [dirBuild EXCEPT ![p] =
                     [layer_zip |-> None, python |-> Some(PythonTree(args[p].requirements))]]
              /\ Goto(p, "zip", "install")
         ELSE /\ dirBuild' = [dirBuild EXCEPT ![p] = EmptyDir]
              /\ Goto(p, "build", "install")
    /\ UNCHANGED <<latest, response, quiet>>
    /\ UNCHANGED <<s3, lambdaLayers, args, same, calls, permissionVars, touched, sourceVars, functionVars>>

\* build_layer_artifacts: unlink layer.zip, rmtree python/, mkdir the build
\* directory, pip install; subprocess.run(check=True) raises when pip exits non-zero
InstallLayer(p) ==
    /\ pc[p] = "build"
    /\ \E ok \in BOOLEAN :
         IF ok
         THEN /\ dirBuild' = [dirBuild EXCEPT ![p] =
                     [layer_zip |-> None, python |-> Some(PythonTree(args[p].requirements))]]
              /\ Goto(p, "zip", "install")
              /\ UNCHANGED <<latest, response, quiet>>
         ELSE /\ dirBuild' = [dirBuild EXCEPT ![p] = EmptyDir]
              /\ Finish(p, Raised("CalledProcessError"))
    /\ UNCHANGED <<s3, lambdaLayers, args, same, calls, permissionVars, touched, sourceVars, functionVars>>

\* build_layer_artifacts: inside temp_cwd(dir_build), zip layer.zip -r glob("*")
\* -x python/{package}*; the working directory is back when the block is left,
\* also when zip exits non-zero and subprocess.run(check=True) raises
ZipLayer(p) ==
    /\ pc[p] = "zip"
    /\ \E ok \in BOOLEAN :
         IF ok
         THEN /\ dirBuild' = [dirBuild EXCEPT ![p].layer_zip =
                     Some(zip_recursive(BuildDirTree(p), glob_star(BuildDirTree(p))))]
              /\ Goto(p, "upload_zip", "zip")
              /\ UNCHANGED <<latest, response, quiet>>
         ELSE /\ Finish(p, Raised("CalledProcessError"))
              /\ UNCHANGED dirBuild
    /\ UNCHANGED <<s3, lambdaLayers, args, same, calls, permissionVars, touched, sourceVars, functionVars>>

\* layer_sha256 = build_layer_artifacts(path_requirements, dir_build, bin_pip, quiet)
BuildLayerArtifacts(p) ==
    \/ InstallLayer(p)
    \/ ZipLayer(p)

\* upload_layer_artifacts: s3path_tmp_layer_zip.upload_file(path_layer_zip, overwrite=True)
UploadLayerZip(p) ==
    /\ pc[p] = "upload_zip"
    /\ \E ok \in BOOLEAN :
         IF ok
         THEN /\ s3' = S3Put(s3, s3path_tmp_layer_zip(S3Root), dirBuild[p].layer_zip[1])
              /\ Goto(p, "upload_req", "upload_zip")
              /\ quiet' = Disturb(p)
              /\ UNCHANGED <<latest, response>>
         ELSE /\ Finish(p, Raised("ClientError"))
              /\ UNCHANGED s3
    /\ touched' = touched \cup {s3path_tmp_layer_zip(S3Root)}
    /\ UNCHANGED <<lambdaLayers, args, dirBuild, same, calls, permissionVars, sourceVars, functionVars>>

\* faulty variant: a manifest already staged is left as it is
UploadRequirementsIfAbsent(p) ==
    /\ pc[p] = "upload_req"
    /\ \E ok \in BOOLEAN :
         IF ok
         THEN /\ s3' = IF S3Exists(s3, s3path_tmp_layer_requirements_txt(S3Root)) THEN s3
                       ELSE S3Put(s3, s3path_tmp_layer_requirements_txt(S3Root),
                                  args[p].requirements)
              /\ Goto(p, "publish", "upload_req")
              /\ quiet' = Disturb(p)
              /\ UNCHANGED <<latest, response>>
         ELSE /\ Finish(p, Raised("ClientError"))
              /\ UNCHANGED s3
    /\ touched' = touched \cup {s3path_tmp_layer_requirements_txt(S3Root)}
    /\ UNCHANGED <<lambdaLayers, args, dirBuild, same, calls, permissionVars, sourceVars, functionVars>>

\* upload_layer_artifacts: s3path_tmp_layer_requirements_txt.upload_file(
\*     path_requirements, overwrite=True)
UploadRequirements(p) ==
    /\ pc[p] = "upload_req"
    /\ \E ok \in BOOLEAN :
         IF ok
         THEN /\ s3' = S3Put(s3, s3path_tmp_layer_requirements_txt(S3Root),
                             args[p].requirements)
              /\ Goto(p, "publish", "upload_req")
              /\ quiet' = Disturb(p)
              /\ UNCHANGED <<latest, response>>
         ELSE /\ Finish(p, Raised("ClientError"))
              /\ UNCHANGED s3
    /\ touched' = touched \cup {s3path_tmp_layer_requirements_txt(S3Root)}
    /\ UNCHANGED <<lambdaLayers, args, dirBuild, same, calls, permissionVars, sourceVars, functionVars>>

\* publish_layer: response = lambda_client.publish_layer_version(
\*     LayerName, Content = the tmp layer.zip)
PublishLayerVersion(p) ==
    /\ pc[p] = "publish"
    /\ \E ok \in BOOLEAN :
         IF ok /\ S3Exists(s3, s3path_tmp_layer_zip(S3Root))
         THEN /\ response' = [response EXCEPT ![p] =
                     PublishedArn(lambdaLayers, args[p].layer_name)]
              /\ lambdaLayers' = [lambdaLayers EXCEPT ![args[p].layer_name] =
                     Append(@, s3[s3path_tmp_layer_zip(S3Root)])]
              /\ Goto(p, "copy_zip", "publish")
              /\ quiet' = Disturb(p)
              /\ UNCHANGED latest
         ELSE /\ Finish(p, Raised("ClientError"))
              /\ UNCHANGED lambdaLayers
    /\ touched' = touched \cup {s3path_tmp_layer_zip(S3Root)}
    /\ UNCHANGED <<s3, args, dirBuild, same, calls, permissionVars, sourceVars, functionVars>>

\* layer_version = int(layer_version_arn.split(":")[-1])
layer_version(layer_version_arn) == IntOfStr(LastSegment(layer_version_arn))

\* faulty variant: the copy overwrites whatever the flag says
CopyToOverwriting(bucket, src, dst, overwrite) ==
    [error |-> "", bucket |-> S3Put(bucket, dst, bucket[src])]

\* S3Path.copy_to(dst, overwrite): with overwrite=False an existing dst is an error
CopyTo(bucket, src, dst, overwrite) ==
    IF ~overwrite /\ S3Exists(bucket, dst)
    THEN [error |-> "FileExistsError", bucket |-> bucket]
    ELSE [error |-> "", bucket |-> S3Put(bucket, dst, bucket[src])]

\* one copy of the promotion: a rejected or failed copy raises, a copy that
\* succeeds moves on to `next`
Promote(p, src, dst, next, name) ==
    /\ touched' = touched \cup {src, dst}
    /\ \E ok \in BOOLEAN :
        LET r == CopyTo(s3, src, dst, FALSE)
        IN  IF ~ok THEN /\ Finish(p, Raised("ClientError"))
                        /\ UNCHANGED s3
            ELSE IF r.error # "" THEN /\ Finish(p, Raised(r.error))
                                      /\ UNCHANGED s3
            ELSE /\ s3' = r.bucket
                 /\ Goto(p, next, name)
                 /\ quiet' = Disturb(p)
                 /\ UNCHANGED <<latest, response>>

\* faulty variant: the version promoted to is guessed as the queried latest version + 1
PromoteLayerZipGuessed(p) ==
    /\ pc[p] = "copy_zip"
    /\ Promote(p, s3path_tmp_layer_zip(S3Root),
               get_s3path_layer_zip(
                   S3Root, IF latest[p] = None THEN 1 ELSE latest[p][1] + 1),
               "copy_req", "copy_zip")
    /\ UNCHANGED <<lambdaLayers, args, dirBuild, same, calls, permissionVars, sourceVars, functionVars>>

\* publish_layer: s3path_tmp_layer_zip.copy_to(s3path_layer_zip, overwrite=False)
PromoteLayerZip(p) ==
    /\ pc[p] = "copy_zip"
    /\ Promote(p, s3path_tmp_layer_zip(S3Root),
               get_s3path_layer_zip(S3Root, layer_version(response[p])),
               "copy_req", "copy_zip")
    /\ UNCHANGED <<lambdaLayers, args, dirBuild, same, calls, permissionVars, sourceVars, functionVars>>

\* publish_layer: s3path_tmp_layer_requirements_txt.copy_to(
\*     s3path_layer_requirements_txt, overwrite=False)
PromoteRequirements(p) ==
    /\ pc[p] = "copy_req"
    /\ Promote(p, s3path_tmp_layer_requirements_txt(S3Root),
               get_s3path_layer_requirements_txt(S3Root, layer_version(response[p])),
               "return", "copy_req")
    /\ UNCHANGED <<lambdaLayers, args, dirBuild, same, calls, permissionVars, sourceVars, functionVars>>

\* the record deploy_layer returns
LayerDeployment(requirements, layer_version_arn) ==
    [kind |-> "LayerDeployment",
     layer_sha256 |-> HashOfBytes(requirements),
     layer_version |-> layer_version(layer_version_arn),
     layer_version_arn |-> layer_version_arn,
     s3path_layer_zip |->
         get_s3path_layer_zip(S3Root, layer_version(layer_version_arn)),
     s3path_layer_requirements_txt |->
         get_s3path_layer_requirements_txt(S3Root, layer_version(layer_version_arn))]

\* return LayerDeployment(...)
ReturnDeployment(p) ==
    /\ pc[p] = "return"
    /\ Finish(p, LayerDeployment(args[p].requirements, response[p]))
    /\ UNCHANGED <<s3, lambdaLayers, args, dirBuild, same, calls, permissionVars, touched, sourceVars, functionVars>>

Next ==
    \E p \in Procs :
        \/ CallDeployLayer(p)
        \/ QueryLatest(p)
        \/ Decide(p)
        \/ BuildLayerArtifacts(p)
        \/ UploadLayerZip(p)
        \/ UploadRequirements(p)
        \/ PublishLayerVersion(p)
        \/ PromoteLayerZip(p)
        \/ PromoteRequirements(p)
        \/ ReturnDeployment(p)

Spec == Init /\ [][Next]_vars

(***************************************************************************)
(* Properties of the layer pipeline.                                       *)
(***************************************************************************)
TmpKeys == {s3path_tmp_layer_zip(S3Root), s3path_tmp_layer_requirements_txt(S3Root)}

StaleRun == <<"query", "decide", "install", "zip", "upload_zip", "upload_req",
              "publish", "copy_zip", "copy_req">>

\* the remote manifest of the version a caller has queried as the latest
LatestManifestKey(p) == get_s3path_layer_requirements_txt(S3Root, latest[p][1])

\* C1: the decision is up-to-date if and only if a latest version exists, its
\* manifest object exists remotely and the object's content equals the content of
\* the local manifest
C1_DecisionIffSameContent ==
    \A p \in Procs :
        pc[p] = "decide" =>
            (is_current_layer_the_same_as_latest_one(
                 s3, latest[p], args[p].requirements, S3Root)
             <=> (/\ latest[p] # None
                  /\ S3Exists(s3, LatestManifestKey(p))
                  /\ s3[LatestManifestKey(p)] = args[p].requirements))

\* C2: a deploy_layer call that repeats the caller's previous, successful call
\* (same layer, same manifest), no other caller having written to the remote state
\* since that previous call began, returns None
C2_SecondDeployReturnsNone ==
    \A p \in Procs :
        (pc[p] = "idle" /\ ret[p].repeat = "deploy_layer" /\ ret[p].kind \in Successful)
            => ret[p].kind = "None"

\* C3: the steps up to and including the decision write nothing, and a run that
\* ends at the decision ends with None, having taken no step but the query: the
\* bucket, the published versions and the build directories are unchanged
C3_DecisionOnlyReads ==
    [][\A p \in Procs :
          /\ (pc[p] \in {"query", "decide"} /\ pc'[p] # pc[p])
                => (s3' = s3 /\ lambdaLayers' = lambdaLayers /\ dirBuild' = dirBuild)
          /\ (pc[p] = "decide" /\ pc'[p] = "idle")
                => (ret'[p].kind = "None" /\ trace[p] = <<"query">>)
          /\ (pc[p] # "idle" /\ pc'[p] = "idle" /\ ret'[p].kind = "None")
                => pc[p] = "decide"]_vars

C3_Witness ==
    \E p \in Procs : pc[p] = "idle" /\ ret[p].kind = "None" /\ DOMAIN s3 # {}

\* C4: an object stored under a permanent, versioned key never changes and never
\* disappears
C4_PermanentObjectsImmutable ==
    [][\A k \in DOMAIN s3 \ TmpKeys : k \in DOMAIN s3' /\ s3'[k] = s3[k]]_vars

\* a promotion into an existing version path has been rejected
C4_Witness ==
    \E p \in Procs :
        /\ pc[p] = "idle" /\ ret[p].kind = "raised" /\ ret[p].error = "FileExistsError"
        /\ s3[get_s3path_layer_zip(S3Root, 1)] # s3[s3path_tmp_layer_zip(S3Root)]

\* C5: a run takes its steps in the order query, decide, build, upload, publish,
\* promote, and the version path it promotes to is the one of the version in the
\* ARN its own publish call returned, whatever the latest version it queried was
C5_OrderAndVersionFromArn ==
    \A p \in Procs :
        /\ pc[p] = "idle" => trace[p] = <<>>
        /\ pc[p] # "idle" => IsPrefix(trace[p], StaleRun)
        /\ pc[p] \notin {"idle", "query"} => trace[p][1] = "query"
        /\ pc[p] \in {"copy_req", "return"} =>
              \E v \in 1..Len(lambdaLayers[args[p].layer_name]) :
                  /\ response[p] = ArnPrefix \o args[p].layer_name \o ":" \o StrOfInt(v)
                  /\ S3Exists(s3, get_s3path_layer_zip(S3Root, v))
        /\ pc[p] = "return" =>
              \E v \in 1..Len(lambdaLayers[args[p].layer_name]) :
                  /\ response[p] = ArnPrefix \o args[p].layer_name \o ":" \o StrOfInt(v)
                  /\ S3Exists(s3, get_s3path_layer_requirements_txt(S3Root, v))
                  /\ trace[p] = StaleRun

\* a run promotes to version 2 although the latest version it had queried was none
C5_Witness ==
    \E p \in Procs :
        /\ pc[p] = "return"
        /\ latest[p] = None
        /\ response[p] = ArnPrefix \o args[p].layer_name \o ":2"
        /\ ~S3Exists(s3, get_s3path_layer_zip(S3Root, 1))

\* C6: the record deploy_layer returns carries the version the publish call
\* assigned and the two locations {root}/layer/{V:06d}/layer.zip and
\* {root}/layer/{V:06d}/requirements.txt, and both objects exist; version 1 sits
\* at {root}/layer/000001/
C6_DeploymentRecord ==
    \A p \in Procs :
        ret[p].kind = "LayerDeployment" =>
            LET V == ret[p].layer_version
            IN  /\ V \in 1..Len(lambdaLayers[args[p].layer_name]) \/ pc[p] # "idle"
                /\ V \in 1..9
                /\ \E n \in LayerNames :
                       ret[p].layer_version_arn = ArnPrefix \o n \o ":" \o DigitChar(V)
                /\ ret[p].s3path_layer_zip =
                       S3Root \o "layer/00000" \o DigitChar(V) \o "/layer.zip"
                /\ ret[p].s3path_layer_requirements_txt =
                       S3Root \o "layer/00000" \o DigitChar(V) \o "/requirements.txt"
                /\ S3Exists(s3, ret[p].s3path_layer_zip)
                /\ S3Exists(s3, ret[p].s3path_layer_requirements_txt)
                /\ V = 1 => ret[p].s3path_layer_zip
                                = "s3://bucket/lambda/layer/000001/layer.zip"

\* with no layer published before, a deployment is recorded at layer/000001/
C6_Witness ==
    \E p \in Procs :
        /\ pc[p] = "idle" /\ ret[p].kind = "LayerDeployment"
        /\ ret[p].layer_version = 1
        /\ calls = 1

\* C21: a package-manager install or a zip that exits non-zero ends the run at
\* once with CalledProcessError: the tool is not run again, the run has made no
\* upload, publish or promote step, and the bucket and the published layer
\* versions are as they were; an install that succeeds is followed by the zip,
\* a zip that succeeds by the upload
C21_ToolFailureAborts ==
    [][\A p \in Procs :
          /\ (pc[p] = "build" /\ trace'[p] # trace[p]) =>
                \/ pc'[p] = "zip" /\ trace'[p] = <<"query", "decide", "install">>
                \/ /\ pc'[p] = "idle"
                   /\ ret'[p].kind = "raised" /\ ret'[p].error = "CalledProcessError"
                   /\ trace[p] = <<"query", "decide">>
                   /\ s3' = s3 /\ lambdaLayers' = lambdaLayers
          /\ (pc[p] = "zip" /\ trace'[p] # trace[p]) =>
                \/ pc'[p] = "upload_zip" /\ dirBuild'[p].layer_zip # None
                \/ /\ pc'[p] = "idle"
                   /\ ret'[p].kind = "raised" /\ ret'[p].error = "CalledProcessError"
                   /\ trace[p] = <<"query", "decide", "install">>
                   /\ dirBuild'[p].layer_zip = None
                   /\ s3' = s3 /\ lambdaLayers' = lambdaLayers]_vars

\* after a deployment that published version 1, the zip of the caller's next run
\* exited non-zero: the run has raised and version 1 is still the only one
C21_Witness ==
    \E p \in Procs :
        /\ pc[p] = "idle"
        /\ ret[p].kind = "raised" /\ ret[p].error = "CalledProcessError"
        /\ dirBuild[p].python # None /\ dirBuild[p].layer_zip = None
        /\ Len(lambdaLayers[args[p].layer_name]) = 1
        /\ S3Exists(s3, get_s3path_layer_requirements_txt(S3Root, 1))

\* the steps of a run up to the publish call
StagedRun == <<"query", "decide", "install", "zip", "upload_zip", "upload_req">>

\* C22: a run that has reached the publish call has written tmp/layer.zip and
\* tmp/requirements.txt itself, earlier in that run; with no other caller writing
\* meanwhile, the staged objects are the archive it built and its manifest, the
\* version it publishes has that archive as content, and the objects it promotes
\* are those two
C22_StagingOverwritten ==
    \A p \in Procs :
        pc[p] \in {"publish", "copy_zip", "copy_req", "return"} =>
            /\ IsPrefix(StagedRun, trace[p])
            /\ quiet[p] =>
                  LET n == args[p].layer_name
                      V == layer_version(response[p])
                  IN  /\ s3[s3path_tmp_layer_zip(S3Root)] = dirBuild[p].layer_zip[1]
                      /\ s3[s3path_tmp_layer_requirements_txt(S3Root)]
                             = args[p].requirements
                      /\ pc[p] # "publish" =>
                             lambdaLayers[n][V] = dirBuild[p].layer_zip[1]
                      /\ pc[p] \in {"copy_req", "return"} =>
                             s3[get_s3path_layer_zip(S3Root, V)]
                                 = dirBuild[p].layer_zip[1]
                      /\ pc[p] = "return" =>
                             s3[get_s3path_layer_requirements_txt(S3Root, V)]
                                 = args[p].requirements

\* a caller's earlier attempt staged and published another archive and then
\* failed; its next run, alone, has staged its own objects and is at the publish call
C22_Witness ==
    \E p \in Procs :
        /\ pc[p] = "publish" /\ quiet[p]
        /\ ret[p].kind = "raised" /\ ret[p].error = "ClientError"
        /\ Len(lambdaLayers[args[p].layer_name]) = 1
        /\ lambdaLayers[args[p].layer_name][1] # dirBuild[p].layer_zip[1]
        /\ \A q \in Procs \ {p} : args[q].op = ""

\* every call made so far was for the layer n
OnlyLayer(n) ==
    /\ \A q \in Procs : args[q].op = "deploy_layer" => args[q].layer_name = n
    /\ \A m \in LayerNames \ {n} : lambdaLayers[m] = <<>>

\* C25: however the runs for one layer name and one S3 root interleave, the
\* archive and the manifest promoted to layer/{N:06d}/ are the ones uploaded by
\* the run whose publish call was assigned version N, and the stored manifest of
\* version N is the one the content of published version N was built from
C25_PromotedByPublisher ==
    \A p \in Procs :
        (pc[p] \in {"copy_req", "return"} /\ OnlyLayer(args[p].layer_name)) =>
            LET n == args[p].layer_name
                V == layer_version(response[p])
                manifest == s3[get_s3path_layer_requirements_txt(S3Root, V)]
            IN  /\ s3[get_s3path_layer_zip(S3Root, V)] = dirBuild[p].layer_zip[1]
                /\ pc[p] = "return" =>
                      /\ manifest = args[p].requirements
                      /\ lambdaLayers[n][V]
                             = zip_recursive(PythonTree(manifest), {"python"})

\* the layer versions published so far, whatever the layer
PublishedVersions == UNION {1..Len(lambdaLayers[n]) : n \in LayerNames}

\* C26: once no publish_layer is under way, layer/{N:06d}/ holds layer.zip and
\* requirements.txt or neither of them; every published version has its stored
\* manifest; and a deploy_layer with the manifest stored for the latest version
\* is decided up-to-date
C26_PromotionAllOrNothing ==
    (\A p \in Procs : pc[p] \notin {"copy_zip", "copy_req"}) =>
        /\ \A V \in PublishedVersions :
               S3Exists(s3, get_s3path_layer_zip(S3Root, V))
                   <=> S3Exists(s3, get_s3path_layer_requirements_txt(S3Root, V))
        /\ \A V \in PublishedVersions :
               S3Exists(s3, get_s3path_layer_requirements_txt(S3Root, V))
        /\ \A p \in Procs :
               (/\ pc[p] = "decide" /\ latest[p] # None
                /\ S3Exists(s3, LatestManifestKey(p))
                /\ s3[LatestManifestKey(p)] = args[p].requirements)
                  => is_current_layer_the_same_as_latest_one(
                         s3, latest[p], args[p].requirements, S3Root)

\* the first half of C26 alone: layer.zip and requirements.txt of a version are
\* there together or not at all
PromotedTogether ==
    (\A p \in Procs : pc[p] \notin {"copy_zip", "copy_req"}) =>
        \A V \in PublishedVersions :
            S3Exists(s3, get_s3path_layer_zip(S3Root, V))
                <=> S3Exists(s3, get_s3path_layer_requirements_txt(S3Root, V))

(***************************************************************************)
(* Layer version permissions: build_statement_id, grant_layer_permission,  *)
(* revoke_layer_permission.                                                *)
(***************************************************************************)
MaxPermCalls == 2

\* func_args.NOTHING: the argument was not given; a given value v is Some(v)
NOTHING == <<>>

\* LayerPermissionActionEnum
action_get_layer_version == "lambda:GetLayerVersion"
action_list_layer_versions == "lambda:ListLayerVersions"

action_to_statement_mapper(action) ==
    CASE action = action_get_layer_version -> "GetLayerVersion"
      [] action = action_list_layer_versions -> "ListLayerVersions"

build_statement_id(action, principal, organization_id) ==
    IF organization_id = NOTHING
    THEN "principal-" \o principal \o "-action-" \o action_to_statement_mapper(action)
    ELSE "principal-" \o principal \o "-organization-" \o organization_id[1]
            \o "-action-" \o action_to_statement_mapper(action)

\* bsm.aws_account_id: the account of the caller's boto session
AwsAccountId == "111122223333"

\* the (principal, action, organization_id) the callers ask for
Grants ==
    { [principal |-> "111122223333", action |-> action_get_layer_version, organization_id |-> NOTHING],
      [principal |-> "111122223333", action |-> action_get_layer_version, organization_id |-> Some("o-1")],
      [principal |-> "*", action |-> action_list_layer_versions, organization_id |-> NOTHING] }

\* the layer whose permissions the callers change, and the version numbers they
\* name: one that exists and one that does not
PermissionLayer == "L1"
VersionNumbers == {1, 2}
ExistingVersions == 1..Len(lambdaLayers[PermissionLayer])

\* the statements a policy may hold when the callers start
StatementOf(g) ==
    [Principal |-> g.principal, Action |-> g.action, OrganizationId |-> g.organization_id]

InitialPolicies ==
    { <<>> } \cup
    { build_statement_id(g.action, g.principal, g.organization_id) :> StatementOf(g) :
          g \in Grants }

InitPermissions ==
    /\ s3 = <<>>
    /\ lambdaLayers = [n \in LayerNames |->
                          IF n = PermissionLayer
                          THEN <<zip_recursive(PythonTree(<<"a", LF>>), {"python"})>>
                          ELSE <<>>]
    /\ pc = [p \in Procs |-> "idle"]
    /\ args = [p \in Procs |-> [op |-> ""]]
    /\ latest = [p \in Procs |-> None]
    /\ dirBuild = [p \in Procs |-> EmptyDir]
    /\ response = [p \in Procs |-> ""]
    /\ ret = [p \in Procs |-> [kind |-> "nothing", repeat |-> ""]]
    /\ trace = [p \in Procs |-> <<>>]
    /\ same = [p \in Procs |-> ""]
    /\ quiet = [p \in Procs |-> TRUE]
    /\ calls = 0
    /\ policy \in InitialPolicies
    /\ revision = 0
    /\ before = [p \in Procs |-> <<>>]
    /\ srcBuild = [p \in Procs |-> NoSourceDir]
    /\ cwd = [p \in Procs |-> StartDir]
    /\ locals = [p \in Procs |-> NoLocals]
    /\ touched = {}
    /\ input = None
    /\ output = None

\* lambda_client.add_layer_version_permission: the error codes the call may end
\* with in this state, "" for success
AddCodes(version_number, statement_id, revision_id) ==
    IF version_number \notin ExistingVersions THEN {"ResourceNotFoundException"}
    ELSE LET stale == revision_id # NOTHING /\ revision_id[1] # revision
             taken == statement_id \in DOMAIN policy
         IN  IF ~stale /\ ~taken THEN {""}
             ELSE (IF stale THEN {"PreconditionFailedException"} ELSE {})
                  \cup (IF taken THEN {"ResourceConflictException"} ELSE {})

\* lambda_client.remove_layer_version_permission: likewise
RemoveCodes(version_number, statement_id, revision_id) ==
    IF version_number \notin ExistingVersions THEN {"ResourceNotFoundException"}
    ELSE LET stale == revision_id # NOTHING /\ revision_id[1] # revision
             missing == statement_id \notin DOMAIN policy
         IN  IF ~stale /\ ~missing THEN {""}
             ELSE (IF stale THEN {"PreconditionFailedException"} ELSE {})
                  \cup (IF missing THEN {"ResourceNotFoundException"} ELSE {})

Without(f, k) == [x \in DOMAIN f \ {k} |-> f[x]]

\* a call of one of the two operations ends with outcome r; unlike the locals, the
\* trace of its API calls is kept until the caller's next call
FinishPermission(p, r) ==
    /\ pc' = [pc EXCEPT ![p] = "idle"]
    /\ ret' = [ret EXCEPT ![p] = r @@ [repeat |-> IF quiet[p] THEN same[p] ELSE ""]]

\* the API call `api` of p for the statement `sid` ended with `code`
Called(p, api, sid, code) ==
    trace' = [trace EXCEPT ![p] = Append(@, [api |-> api, sid |-> sid, code |-> code])]

\* grant_layer_permission: if statement_id is None: build_statement_id(...)
GrantStatementId(a) ==
    IF a.statement_id = None
    THEN build_statement_id(a.action, a.principal[1], a.organization_id)
    ELSE a.statement_id[1]

\* faulty variant: revoke derives the statement id without the organization
RevokeStatementIdNoOrganization(a) ==
    IF a.statement_id = None
    THEN build_statement_id(a.action, a.principal[1], NOTHING)
    ELSE a.statement_id[1]

\* revoke_layer_permission: if statement_id is None: build_statement_id(...)
RevokeStatementId(a) ==
    IF a.statement_id = None
    THEN build_statement_id(a.action, a.principal[1], a.organization_id)
    ELSE a.statement_id[1]

\* a caller invokes grant_layer_permission(version_number, principal, statement_id,
\* action, organization_id, revision_id); a revision id it gives is the one it has
\* just read
CallGrant(p) ==
    /\ pc[p] = "idle"
    /\ calls < MaxPermCalls
    /\ \E g \in Grants, v \in VersionNumbers, sid \in {None, Some("sid")},
          rev \in {NOTHING, Some(revision)} :
         LET a == [op |-> "grant", version_number |-> v, principal |-> Some(g.principal),
                   statement_id |-> sid, action |-> g.action,
                   organization_id |-> g.organization_id, revision_id |-> rev]
         IN  /\ args' = [args EXCEPT ![p] = a]
             /\ same' = [same EXCEPT ![p] = SameAs(p, a)]
    /\ quiet' = [quiet EXCEPT ![p] = TRUE]
    /\ pc' = [pc EXCEPT ![p] = "add"]
    /\ trace' = [trace EXCEPT ![p] = <<>>]
    /\ before' = [before EXCEPT ![p] = policy]
    /\ calls' = calls + 1
    /\ UNCHANGED <<ret, layerVars, policy, revision, touched, sourceVars, functionVars>>

\* add_layer_version_permission(StatementId, Principal=bsm.aws_account_id, Action,
\* OrganizationId, RevisionId), the first time or the second
AddLayerVersionPermission(p, code) ==
    /\ Called(p, "add", GrantStatementId(args[p]), code)
    /\ IF code = ""
       THEN /\ policy' = (GrantStatementId(args[p]) :>
                             [Principal |-> AwsAccountId,
                              Action |-> args[p].action,
                              OrganizationId |-> args[p].organization_id]) @@ policy
            /\ revision' = revision + 1
            /\ quiet' = Disturb(p)
       ELSE UNCHANGED <<policy, revision, quiet>>

\* faulty variant: a conflict of the first add is raised like any other error
GrantAddNoRetry(p) ==
    /\ pc[p] = "add"
    /\ \E code \in AddCodes(args[p].version_number, GrantStatementId(args[p]),
                            args[p].revision_id) :
         /\ AddLayerVersionPermission(p, code)
         /\ IF code = "" THEN FinishPermission(p, [kind |-> "AddResponse"])
            ELSE FinishPermission(p, Raised(code))
    /\ UNCHANGED <<args, same, calls, before, layerVars, touched, sourceVars, functionVars>>

\* try: res = add_layer_version_permission()
\* except ClientError: ResourceConflictException -> remove and retry, else raise
GrantAdd(p) ==
    /\ pc[p] = "add"
    /\ \E code \in AddCodes(args[p].version_number, GrantStatementId(args[p]),
                            args[p].revision_id) :
         /\ AddLayerVersionPermission(p, code)
         /\ IF code = "" THEN FinishPermission(p, [kind |-> "AddResponse"])
            ELSE IF code = "ResourceConflictException"
                 THEN /\ pc' = [pc EXCEPT ![p] = "remove"]
                      /\ UNCHANGED ret
            ELSE FinishPermission(p, Raised(code))
    /\ UNCHANGED <<args, same, calls, before, layerVars, touched, sourceVars, functionVars>>

\* bsm.lambda_client.remove_layer_version_permission(StatementId, RevisionId)
GrantRemove(p) ==
    /\ pc[p] = "remove"
    /\ \E code \in RemoveCodes(args[p].version_number, GrantStatementId(args[p]),
                               args[p].revision_id) :
         /\ Called(p, "remove", GrantStatementId(args[p]), code)
         /\ IF code = ""
            THEN /\ policy' = Without(policy, GrantStatementId(args[p]))
                 /\ revision' = revision + 1
                 /\ quiet' = Disturb(p)
                 /\ pc' = [pc EXCEPT ![p] = "add_again"]
                 /\ UNCHANGED ret
            ELSE /\ FinishPermission(p, Raised(code))
                 /\ UNCHANGED <<policy, revision, quiet>>
    /\ UNCHANGED <<args, same, calls, before, layerVars, touched, sourceVars, functionVars>>

\* faulty variant: a conflict of the second add is handled like one of the first
GrantAddAgainRetrying(p) ==
    /\ pc[p] = "add_again"
    /\ \E code \in AddCodes(args[p].version_number, GrantStatementId(args[p]),
                            args[p].revision_id) :
         /\ AddLayerVersionPermission(p, code)
         /\ IF code = "" THEN FinishPermission(p, [kind |-> "AddResponse"])
            ELSE IF code = "ResourceConflictException"
                 THEN /\ pc' = [pc EXCEPT ![p] = "remove"]
                      /\ UNCHANGED ret
            ELSE FinishPermission(p, Raised(code))
    /\ UNCHANGED <<args, same, calls, before, layerVars, touched, sourceVars, functionVars>>

\* res = add_layer_version_permission(), the retry: every error is raised
GrantAddAgain(p) ==
    /\ pc[p] = "add_again"
    /\ \E code \in AddCodes(args[p].version_number, GrantStatementId(args[p]),
                            args[p].revision_id) :
         /\ AddLayerVersionPermission(p, code)
         /\ IF code = "" THEN FinishPermission(p, [kind |-> "AddResponse"])
            ELSE FinishPermission(p, Raised(code))
    /\ UNCHANGED <<args, same, calls, before, layerVars, touched, sourceVars, functionVars>>

\* a caller invokes revoke_layer_permission(version_number, statement_id, action,
\* principal, organization_id, revision_id)
CallRevoke(p) ==
    /\ pc[p] = "idle"
    /\ calls < MaxPermCalls
    /\ \E g \in Grants, v \in VersionNumbers, sid \in {None, Some("sid")},
          rev \in {NOTHING, Some(revision)}, given \in BOOLEAN :
         LET a == [op |-> "revoke", version_number |-> v,
                   principal |-> IF given THEN Some(g.principal) ELSE NOTHING,
                   statement_id |-> sid, action |-> g.action,
                   organization_id |-> g.organization_id, revision_id |-> rev]
         IN  /\ args' = [args EXCEPT ![p] = a]
             /\ same' = [same EXCEPT ![p] = SameAs(p, a)]
    /\ quiet' = [quiet EXCEPT ![p] = TRUE]
    /\ pc' = [pc EXCEPT ![p] = "derive"]
    /\ trace' = [trace EXCEPT ![p] = <<>>]
    /\ before' = [before EXCEPT ![p] = policy]
    /\ calls' = calls + 1
    /\ UNCHANGED <<ret, layerVars, policy, revision, touched, sourceVars, functionVars>>

\* if statement_id is None: principal must be given, or ValueError is raised
RevokeDerive(p) ==
    /\ pc[p] = "derive"
    /\ IF args[p].statement_id = None /\ args[p].principal = NOTHING
       THEN FinishPermission(p, Raised("ValueError"))
       ELSE /\ pc' = [pc EXCEPT ![p] = "revoke"]
            /\ UNCHANGED ret
    /\ UNCHANGED <<args, trace, same, quiet, calls, layerVars, touched, permissionVars, sourceVars, functionVars>>

\* faulty variant: ResourceNotFoundException is raised like any other error
RevokeRemoveStrict(p) ==
    /\ pc[p] = "revoke"
    /\ \E code \in RemoveCodes(args[p].version_number, RevokeStatementId(args[p]),
                               args[p].revision_id) :
         /\ Called(p, "remove", RevokeStatementId(args[p]), code)
         /\ IF code = ""
            THEN /\ policy' = Without(policy, RevokeStatementId(args[p]))
                 /\ revision' = revision + 1
                 /\ quiet' = Disturb(p)
                 /\ FinishPermission(p, [kind |-> "RemoveResponse"])
            ELSE /\ UNCHANGED <<policy, revision, quiet>>
                 /\ FinishPermission(p, Raised(code))
    /\ UNCHANGED <<args, same, calls, before, layerVars, touched, sourceVars, functionVars>>

\* try: return remove_layer_version_permission(StatementId, RevisionId)
\* except ClientError: ResourceNotFoundException -> return None, else raise
RevokeRemove(p) ==
    /\ pc[p] = "revoke"
    /\ \E code \in RemoveCodes(args[p].version_number, RevokeStatementId(args[p]),
                               args[p].revision_id) :
         /\ Called(p, "remove", RevokeStatementId(args[p]), code)
         /\ IF code = ""
            THEN /\ policy' = Without(policy, RevokeStatementId(args[p]))
                 /\ revision' = revision + 1
                 /\ quiet' = Disturb(p)
                 /\ FinishPermission(p, [kind |-> "RemoveResponse"])
            ELSE /\ UNCHANGED <<policy, revision, quiet>>
                 /\ IF code = "ResourceNotFoundException"
                    THEN FinishPermission(p, [kind |-> "None"])
                    ELSE FinishPermission(p, Raised(code))
    /\ UNCHANGED <<args, same, calls, before, layerVars, touched, sourceVars, functionVars>>

NextPermissions ==
    \E p \in Procs :
        \/ CallGrant(p)
        \/ GrantAdd(p)
        \/ GrantRemove(p)
        \/ GrantAddAgain(p)
        \/ CallRevoke(p)
        \/ RevokeDerive(p)
        \/ RevokeRemove(p)

SpecPermissions == InitPermissions /\ [][NextPermissions]_vars

(***************************************************************************)
(* Properties of the permission helpers.                                   *)
(***************************************************************************)
Conflict == "ResourceConflictException"
NotFound == "ResourceNotFoundException"

\* the statement id of a (principal, action, organization_id), written out
ExpectedSid(a) ==
    CASE a.principal = Some("111122223333") /\ a.organization_id = NOTHING
            -> "principal-111122223333-action-GetLayerVersion"
      [] a.principal = Some("111122223333") /\ a.organization_id = Some("o-1")
            -> "principal-111122223333-organization-o-1-action-GetLayerVersion"
      [] a.principal = Some("*")
            -> "principal-*-action-ListLayerVersions"

\* the statement ids on the layer version a call names, given the policy pol of the
\* version that exists
SidsOn(version_number, pol) ==
    IF version_number \in ExistingVersions THEN DOMAIN pol ELSE {}

\* the arguments name no statement id and no revision id
Defaults(a) == a.statement_id = None /\ a.revision_id = NOTHING

\* C7: one grant_layer_permission makes at most the API calls add, remove, add,
\* in this order; it removes only after a first add that ended with
\* ResourceConflictException and adds again only after that remove succeeded;
\* every other error of the first add and every error of the second add is the
\* error the call raises
C7_GrantRetriesOnce ==
    \A p \in Procs :
        args[p].op = "grant" =>
            LET t == trace[p]
                n == Len(trace[p])
            IN  /\ n <= 3
                /\ n >= 1 => t[1].api = "add"
                /\ n >= 2 => t[1].code = Conflict /\ t[2].api = "remove"
                /\ n = 3 => t[2].code = "" /\ t[3].api = "add"
                /\ pc[p] = "idle" =>
                       /\ n >= 1
                       /\ n = 1 => t[1].code # Conflict
                       /\ IF t[n].code = ""
                          THEN t[n].api = "add" /\ ret[p].kind = "AddResponse"
                          ELSE ret[p].kind = "raised" /\ ret[p].error = t[n].code

\* the second add of a grant ended with a conflict, which the call raised
C7_Witness ==
    \E p \in Procs :
        /\ args[p].op = "grant" /\ pc[p] = "idle"
        /\ Len(trace[p]) = 3
        /\ ret[p].kind = "raised" /\ ret[p].error = Conflict

\* C8: a grant of an existing version with no statement id and no revision id
\* given, no other caller changing the policy meanwhile, succeeds and leaves a
\* statement under the statement id of its (action, principal, organization);
\* when it repeats the caller's previous, successful grant (nobody else having
\* changed the policy since that grant began) it succeeds by add (conflict),
\* remove, add on that same statement id and leaves the policy with the
\* statement ids it had before: one statement under that id
C8_GrantTwice ==
    \A p \in Procs :
        /\ (/\ pc[p] = "idle" /\ args[p].op = "grant" /\ Defaults(args[p])
            /\ args[p].version_number \in ExistingVersions /\ quiet[p])
           => /\ ret[p].kind = "AddResponse"
              /\ \A i \in 1..Len(trace[p]) : trace[p][i].sid = ExpectedSid(args[p])
              /\ ExpectedSid(args[p]) \in DOMAIN policy
        /\ (/\ pc[p] = "idle" /\ args[p].op = "grant" /\ Defaults(args[p])
            /\ ret[p].repeat = "grant" /\ quiet[p])
           => /\ ret[p].kind = "AddResponse"
              /\ Len(trace[p]) = 3
              /\ trace[p][1].code = Conflict
              /\ \A i \in 1..3 : trace[p][i].sid = ExpectedSid(args[p])
              /\ ExpectedSid(args[p]) \in DOMAIN policy
              /\ DOMAIN policy = DOMAIN before[p]

C8_Witness ==
    \E p \in Procs :
        /\ pc[p] = "idle" /\ args[p].op = "grant" /\ Defaults(args[p])
        /\ ret[p].repeat = "grant" /\ quiet[p]
        /\ ret[p].kind = "AddResponse"

\* C9: revoke_layer_permission returns None when the remove call ends with
\* ResourceNotFoundException, the response when the statement was removed, and
\* raises every other error as it is; when it does not raise, the statement is
\* absent, and a revoke that found nothing has left the policy unchanged
C9_RevokeIdempotent ==
    [][\A p \in Procs :
          (pc[p] = "revoke" /\ pc'[p] = "idle") =>
              LET sid == IF args[p].statement_id = None
                         THEN ExpectedSid(args[p]) ELSE args[p].statement_id[1]
                  call == trace'[p][Len(trace'[p])]
              IN  /\ Len(trace'[p]) = 1 /\ call.api = "remove" /\ call.sid = sid
                  /\ call.code = NotFound <=> ret'[p].kind = "None"
                  /\ call.code = "" <=> ret'[p].kind = "RemoveResponse"
                  /\ call.code \notin {"", NotFound} <=>
                         (ret'[p].kind = "raised" /\ ret'[p].error = call.code)
                  /\ ret'[p].kind = "RemoveResponse" =>
                         (sid \in DOMAIN policy /\ policy' = Without(policy, sid))
                  /\ ret'[p].kind = "None" => policy' = policy
                  /\ ret'[p].kind # "raised" =>
                         sid \notin SidsOn(args[p].version_number, policy')]_vars

\* a revoke right after the caller's own successful revoke of the same statement
\* returned None
C9_Witness ==
    \E p \in Procs :
        /\ pc[p] = "idle" /\ args[p].op = "revoke"
        /\ ret[p].repeat = "revoke" /\ quiet[p]
        /\ ret[p].kind = "None"
        /\ args[p].version_number \in ExistingVersions

\* C10: with no statement id given, every API call of grant and of revoke is made
\* for the statement id of the call's (action, principal, organization_id); and a
\* revoke that follows the caller's successful grant with the same version,
\* action, principal and organization, nobody else having changed the policy
\* since that grant began, returns the response and removes that statement only
C10_RevokeUndoesGrant ==
    \A p \in Procs :
        /\ (args[p].op \in {"grant", "revoke"} /\ args[p].statement_id = None) =>
               \A i \in 1..Len(trace[p]) : trace[p][i].sid = ExpectedSid(args[p])
        /\ (/\ pc[p] = "idle" /\ args[p].op = "revoke" /\ Defaults(args[p])
            /\ ret[p].repeat = "grant" /\ quiet[p])
           => /\ ret[p].kind = "RemoveResponse"
              /\ ExpectedSid(args[p]) \in DOMAIN before[p]
              /\ policy = Without(before[p], ExpectedSid(args[p]))

C10_Witness ==
    \E p \in Procs :
        /\ pc[p] = "idle" /\ args[p].op = "revoke" /\ Defaults(args[p])
        /\ ret[p].repeat = "grant" /\ quiet[p]
        /\ ret[p].kind = "RemoveResponse"
        /\ args[p].organization_id # NOTHING

\* C27: the statement a successful grant has added names the principal the call
\* was given, the one its statement id was derived from, also when that principal
\* is not the account of the caller's session
C27_StatementNamesPrincipal ==
    \A p \in Procs :
        (/\ pc[p] = "idle" /\ args[p].op = "grant" /\ quiet[p]
         /\ ret[p].kind = "AddResponse")
           => /\ GrantStatementId(args[p]) \in DOMAIN policy
              /\ policy[GrantStatementId(args[p])].Principal = args[p].principal[1]

\* C28: a grant that raised, nobody else having changed the policy meanwhile, has
\* left the statements of the layer version as they were when it was called
C28_FailedGrantChangesNothing ==
    \A p \in Procs :
        (/\ pc[p] = "idle" /\ args[p].op = "grant" /\ quiet[p]
         /\ ret[p].kind = "raised")
           => policy = before[p]

(***************************************************************************)
(* do_we_include (source.py): the include / exclude decision of            *)
(* build_source_python_lib.  A relative path is the sequence of its        *)
(* components, a pattern the sequence of its component patterns, in which  *)
(* "*" stands for any run of characters.                                   *)
(***************************************************************************)
MaxPatterns == 2

\* fnmatch.fnmatchcase(name, pat), as PurePath.match applies it to a component
RECURSIVE fnmatchcase(_, _)
fnmatchcase(name, pat) ==
    IF pat = "" THEN name = ""
    ELSE IF SubSeq(pat, 1, 1) = "*"
         THEN \E k \in 0..Len(name) :
                  fnmatchcase(SubSeq(name, k + 1, Len(name)), SubSeq(pat, 2, Len(pat)))
         ELSE /\ name # ""
              /\ SubSeq(name, 1, 1) = SubSeq(pat, 1, 1)
              /\ fnmatchcase(SubSeq(name, 2, Len(name)), SubSeq(pat, 2, Len(pat)))

\* relpath.match(pattern): a relative pattern is matched from the right
match(relpath, pattern) ==
    /\ Len(pattern) <= Len(relpath)
    /\ \A i \in 1..Len(pattern) :
           fnmatchcase(relpath[Len(relpath) - Len(pattern) + i], pattern[i])

\* any([relpath.match(pattern) for pattern in patterns])
match_any(relpath, patterns) ==
    \E i \in 1..Len(patterns) : match(relpath, patterns[i])

\* faulty variant: with both lists given, an include match wins over an exclude match
do_we_include_include_first(relpath, include, exclude) ==
    IF Len(include) = 0 /\ Len(exclude) = 0 THEN TRUE
    ELSE IF Len(include) > 0 /\ Len(exclude) > 0
         THEN match_any(relpath, include)
    ELSE IF Len(include) > 0 /\ Len(exclude) = 0 THEN match_any(relpath, include)
    ELSE ~match_any(relpath, exclude)

do_we_include(relpath, include, exclude) ==
    IF Len(include) = 0 /\ Len(exclude) = 0 THEN TRUE
    ELSE IF Len(include) > 0 /\ Len(exclude) > 0
         THEN LET match_any_include == match_any(relpath, include)
                  match_any_exclude == match_any(relpath, exclude)
              IN  IF match_any_exclude THEN FALSE ELSE match_any_include
    ELSE IF Len(include) > 0 /\ Len(exclude) = 0 THEN match_any(relpath, include)
    ELSE ~match_any(relpath, exclude)

\* the files of a library tree and the patterns a caller gives
RelPaths == {<<"a.py">>, <<"vendor", "b.py">>, <<"notes.txt">>, <<"__pycache__", "a.pyc">>}
Patterns == {<<"*.py">>, <<"vendor", "*.py">>, <<"*.txt">>, <<"*.pyc">>}

\* the lists of at most n elements of S
ListsOf(S, n) == UNION {[1..k -> S] : k \in 0..n}

InitInclude ==
    /\ InitPipelines
    /\ input \in [relpath : RelPaths,
                  include : ListsOf(Patterns, MaxPatterns),
                  exclude : ListsOf(Patterns, MaxPatterns)]
    /\ output = None

\* do_we_include(relpath, include=include, exclude=exclude)
ApplyDoWeInclude ==
    /\ output = None
    /\ output' = Some(do_we_include(input.relpath, input.include, input.exclude))
    /\ UNCHANGED <<s3, lambdaLayers, pc, args, latest, dirBuild, response, ret, trace,
                   same, quiet, calls, permissionVars, sourceVars, touched, input>>

NextInclude == ApplyDoWeInclude

SpecInclude == InitInclude /\ [][NextInclude]_vars

\* C11: do_we_include returns True exactly when both lists are empty, or the path
\* matches no exclude pattern and the include list is empty or matches the path
C11_IncludeDecision ==
    output # None =>
        LET hitsInclude == \E i \in 1..Len(input.include) :
                               match(input.relpath, input.include[i])
            hitsExclude == \E i \in 1..Len(input.exclude) :
                               match(input.relpath, input.exclude[i])
        IN  /\ output[1] <=>
                   \/ (input.include = <<>> /\ input.exclude = <<>>)
                   \/ (~hitsExclude /\ (input.include = <<>> \/ hitsInclude))
            /\ hitsExclude => ~output[1]
            /\ (input.include # <<>> /\ ~hitsInclude) => ~output[1]

\* a path that matches an include pattern and an exclude pattern was decided
C11_Witness ==
    /\ output = Some(FALSE)
    /\ input.relpath = <<"vendor", "b.py">>
    /\ input.include = <<<<"*.py">>>>
    /\ input.exclude = <<<<"vendor", "*.py">>>>

(***************************************************************************)
(* The content hash: Hashes.of_folder / Hashes.of_paths (vendor/hashes.py) *)
(* and sha256_of_paths (utils.py).  A filesystem maps a path to a file     *)
(* with its bytes, a directory, or something that is neither; a path that  *)
(* does not exist is not in its domain.                                    *)
(***************************************************************************)
MaxPaths == 2


is_dir(fs, path) == path \in DOMAIN fs /\ fs[path].type = "dir"
is_file(fs, path) == path \in DOMAIN fs /\ fs[path].type = "file"

\* the characters of the paths, in code point order
Ascii == "./0123456789_abcdefghijklmnopqrstuvwxyz"
ord(c) == CHOOSE i \in 1..Len(Ascii) : SubSeq(Ascii, i, i) = c

\* a < b for two str, as Python compares them
RECURSIVE str_lt(_, _)
str_lt(a, b) ==
    IF b = "" THEN FALSE
    ELSE IF a = "" THEN TRUE
    ELSE IF SubSeq(a, 1, 1) # SubSeq(b, 1, 1)
         THEN ord(SubSeq(a, 1, 1)) < ord(SubSeq(b, 1, 1))
    ELSE str_lt(SubSeq(a, 2, Len(a)), SubSeq(b, 2, Len(b)))

\* sorted(seq, key=lambda x: str(x)), by insertion
RECURSIVE insort(_, _)
insort(x, seq) ==
    IF seq = <<>> THEN <<x>>
    ELSE IF str_lt(x, Head(seq)) THEN <<x>> \o seq
    ELSE <<Head(seq)>> \o insort(x, Tail(seq))

RECURSIVE sorted(_)
sorted(seq) ==
    IF seq = <<>> THEN <<>> ELSE insort(Head(seq), sorted(Tail(seq)))

\* path.glob("**/*"): every entry below path, files and directories alike, in
\* the order the filesystem enumerates them
glob(fs, path, order) ==
    LET below(q) == q \in DOMAIN fs /\ IsPrefix(path \o "/", q) /\ q # path \o "/"
    IN  SelectSeq(order, below)

\* "".join(hashes)
RECURSIVE join(_)
join(hashes) ==
    IF hashes = <<>> THEN <<>> ELSE Head(hashes) \o join(Tail(hashes))

sha256_of_bytes(b) == HashOfBytes(b)
of_str(s) == HashOfBytes(s)
of_file(fs, path) == HashOfBytes(fs[path].bytes)

Digest(d) == [kind |-> "digest", value |-> d]

\* [f(q) for q in seq if is_file(q)], f being the hash of the file's bytes
FileHashes(fs, seq) ==
    LET isfile(q) == is_file(fs, q)
        files == SelectSeq(seq, isfile)
    IN  [i \in 1..Len(files) |-> of_file(fs, files[i])]

\* Hashes.of_folder(abspath)
of_folder(fs, path, order) ==
    IF ~is_dir(fs, path) THEN Raised("NotADirectoryError")
    ELSE Digest(of_str(join(FileHashes(fs, sorted(glob(fs, path, order))))))

\* the list `hashes` that Hashes.of_paths builds from the entries of paths
RECURSIVE of_paths_hashes(_, _, _)
of_paths_hashes(fs, paths, order) ==
    IF paths = <<>> THEN <<>>
    ELSE (IF is_dir(fs, Head(paths)) THEN <<of_folder(fs, Head(paths), order).value>>
          ELSE IF is_file(fs, Head(paths)) THEN <<of_file(fs, Head(paths))>>
          ELSE <<>>)
         \o of_paths_hashes(fs, Tail(paths), order)

\* faulty variant: an entry that is neither a file nor a directory is opened as a file
of_paths_strict(fs, paths, order) ==
    IF \E i \in 1..Len(paths) : ~is_dir(fs, paths[i]) /\ ~is_file(fs, paths[i])
    THEN Raised("FileNotFoundError")
    ELSE Digest(of_str(join(of_paths_hashes(fs, paths, order))))

\* Hashes.of_paths(paths)
of_paths(fs, paths, order) ==
    Digest(of_str(join(of_paths_hashes(fs, paths, order))))

\* the paths sha256_of_paths calls read_bytes() on, in order
RECURSIVE sha256_of_paths_reads(_, _, _)
sha256_of_paths_reads(fs, paths, order) ==
    IF paths = <<>> THEN <<>>
    ELSE (IF is_dir(fs, Head(paths)) THEN sorted(glob(fs, Head(paths), order))
          ELSE IF is_file(fs, Head(paths)) THEN <<Head(paths)>>
          ELSE <<>>)
         \o sha256_of_paths_reads(fs, Tail(paths), order)

\* utils.sha256_of_paths(paths); p.read_bytes() raises when p is a directory
sha256_of_paths(fs, paths, order) ==
    LET reads == sha256_of_paths_reads(fs, paths, order)
    IN  IF \E i \in 1..Len(reads) : is_dir(fs, reads[i])
        THEN Raised("IsADirectoryError")
        ELSE Digest(sha256_of_bytes(join(
                 [i \in 1..Len(reads) |-> sha256_of_bytes(fs[reads[i]].bytes)])))

\* the trees hashed: a directory d of two files, flat or with a subdirectory,
\* next to a file f and a socket o; m does not exist
FlatTree ==
    ("d" :> Dir) @@ ("d/a" :> File(<<"x">>)) @@ ("d/b" :> File(<<"y">>))
    @@ ("f" :> File(<<"z">>)) @@ ("o" :> Other)
NestedTree ==
    ("d" :> Dir) @@ ("d/a" :> File(<<"x">>)) @@ ("d/s" :> Dir)
    @@ ("d/s/b" :> File(<<"y">>)) @@ ("f" :> File(<<"z">>)) @@ ("o" :> Other)
Trees == {FlatTree, NestedTree}
Entries == {"d", "f", "o", "m"}

\* the orders in which a filesystem may enumerate the entries of S
Orders(S) == {o \in [1..Cardinality(S) -> S] : \A x \in S : \E i \in DOMAIN o : o[i] = x}

Below(fs, path) == {q \in DOMAIN fs : IsPrefix(path \o "/", q)}

\* fs with the content of one file replaced
Rewrite(fs, path, b) == [fs EXCEPT ![path] = File(b)]

InitHash ==
    /\ InitPipelines
    /\ \E fs \in Trees :
         input \in [fs : {fs},
                    paths : ListsOf(Entries, MaxPaths),
                    order : Orders(Below(fs, "d")),
                    order_again : Orders(Below(fs, "d")),
                    changed : {q \in Below(fs, "d") : is_file(fs, q)}]
    /\ output = [f \in {} |-> None]

\* one more result of the functions under test is recorded
Record(field, value) ==
    /\ field \notin DOMAIN output
    /\ output' = (field :> value) @@ output
    /\ UNCHANGED <<s3, lambdaLayers, pc, args, latest, dirBuild, response, ret, trace,
                   same, quiet, calls, permissionVars, sourceVars, touched, input>>

\* sha256_of_paths(paths), twice, and on paths without the entries that are
\* neither file nor directory
ApplySha256OfPaths ==
    LET exists(q) == is_dir(input.fs, q) \/ is_file(input.fs, q)
    IN  Record("sha256_of_paths",
               [first |-> sha256_of_paths(input.fs, input.paths, input.order),
                again |-> sha256_of_paths(input.fs, input.paths, input.order_again),
                cleaned |-> sha256_of_paths(input.fs, SelectSeq(input.paths, exists),
                                            input.order),
                folder |-> sha256_of_paths(input.fs, <<"d">>, input.order),
                folder_again |-> sha256_of_paths(input.fs, <<"d">>, input.order_again),
                folder_changed |->
                    sha256_of_paths(Rewrite(input.fs, input.changed, <<"q">>),
                                    <<"d">>, input.order)])

\* hashes.of_paths(paths), likewise
ApplyOfPaths ==
    LET exists(q) == is_dir(input.fs, q) \/ is_file(input.fs, q)
    IN  Record("of_paths",
               [first |-> of_paths(input.fs, input.paths, input.order),
                again |-> of_paths(input.fs, input.paths, input.order_again),
                cleaned |-> of_paths(input.fs, SelectSeq(input.paths, exists),
                                     input.order)])

\* hashes.of_folder(d), under both enumeration orders and after one file changed
ApplyOfFolder ==
    Record("of_folder",
           [first |-> of_folder(input.fs, "d", input.order),
            again |-> of_folder(input.fs, "d", input.order_again),
            changed |-> of_folder(Rewrite(input.fs, input.changed, <<"q">>),
                                  "d", input.order)])

NextHash == ApplySha256OfPaths \/ ApplyOfPaths \/ ApplyOfFolder

SpecHash == InitHash /\ [][NextHash]_vars

(***************************************************************************)
(* Properties of the content hash.                                         *)
(***************************************************************************)
\* every entry of the list is a file or a directory
AllExist == \A i \in 1..Len(input.paths) :
                is_dir(input.fs, input.paths[i]) \/ is_file(input.fs, input.paths[i])

\* the files below d, in increasing order of their path
FilesInOrder(fs) ==
    LET files == {q \in Below(fs, "d") : is_file(fs, q)}
    IN  CHOOSE q \in [1..Cardinality(files) -> files] :
            \A i, j \in DOMAIN q : i < j => str_lt(q[i], q[j])

\* the hash of the concatenation of the hashes of the files below d, in that order
SortedHash(fs) ==
    LET q == FilesInOrder(fs)
    IN  Digest(HashOfBytes(join([i \in DOMAIN q |-> HashOfBytes(fs[q[i]].bytes)])))

\* C16: for every list of files and directories, nested ones included,
\* sha256_of_paths returns a digest, and the same digest when called again
C16_Sha256OfPathsTotal ==
    ("sha256_of_paths" \in DOMAIN output /\ AllExist) =>
        /\ output["sha256_of_paths"].first.kind = "digest"
        /\ output["sha256_of_paths"].again = output["sha256_of_paths"].first

\* the directory digest of Hashes.of_folder is the sorted hash, whatever the
\* enumeration order, and differs once one file has changed
OfFolderIsSortedHash ==
    "of_folder" \in DOMAIN output =>
        /\ output["of_folder"].first = SortedHash(input.fs)
        /\ output["of_folder"].again = output["of_folder"].first
        /\ output["of_folder"].changed # output["of_folder"].first

\* C17: the digest of a directory is the hash of the concatenated hashes of its
\* files in lexicographic order of path, the same for every enumeration order and
\* different once the content of one file has changed; for Hashes.of_folder and
\* for the directory branch of sha256_of_paths
C17_DirectoryDigest ==
    /\ OfFolderIsSortedHash
    /\ "sha256_of_paths" \in DOMAIN output =>
        /\ output["sha256_of_paths"].folder = SortedHash(input.fs)
        /\ output["sha256_of_paths"].folder_again = output["sha256_of_paths"].folder
        /\ output["sha256_of_paths"].folder_changed # output["sha256_of_paths"].folder

\* the entries of the list that are a file or a directory
Existing ==
    {i \in 1..Len(input.paths) :
        is_dir(input.fs, input.paths[i]) \/ is_file(input.fs, input.paths[i])}

\* C18: an entry that does not exist, or is neither file nor directory, raises
\* nothing and contributes nothing: the digest is that of the list without such
\* entries, and that of the empty string when no other entry is left
C18_MissingEntriesSkipped ==
    /\ "of_paths" \in DOMAIN output =>
        /\ output["of_paths"].first.kind = "digest"
        /\ output["of_paths"].first = output["of_paths"].cleaned
        /\ Existing = {} => output["of_paths"].first = Digest(HashOfBytes(<<>>))
    /\ "sha256_of_paths" \in DOMAIN output =>
        /\ output["sha256_of_paths"].first = output["sha256_of_paths"].cleaned
        /\ Existing = {} => output["sha256_of_paths"].first = Digest(HashOfBytes(<<>>))

\* a list of a missing entry and a file was hashed by both functions
C18_Witness ==
    /\ input.paths = <<"m", "f">>
    /\ DOMAIN output = {"of_paths", "sha256_of_paths", "of_folder"}
    /\ output["of_paths"].first = Digest(HashOfBytes(HashOfBytes(<<"z">>)))
    /\ output["sha256_of_paths"].first = Digest(HashOfBytes(HashOfBytes(<<"z">>)))

\* C19: sha256_of_paths and Hashes.of_paths return the same digest for every list
C19_OneHashDefinition ==
    {"of_paths", "sha256_of_paths"} \subseteq DOMAIN output =>
        output["sha256_of_paths"].first = output["of_paths"].first

(***************************************************************************)
(* The version segment of the permanent layer paths (context.py).          *)
(***************************************************************************)
\* layer versions around the powers of ten, up to and beyond the padded width
Versions == {0, 1, 9, 10, 11, 99, 100, 99999, 100000, 999999, 1000000, 1000001, 2000000}

\* the segment of a path between the directory it starts with and the file
\* name it ends with
Segment(path, dir, name) == SubSeq(path, Len(dir) + 1, Len(path) - Len(name) - 1)

InitSegment ==
    /\ InitPipelines
    /\ input \in [a : Versions, b : Versions]
    /\ output = None

\* the version segments of get_s3path_layer_zip(a) and
\* get_s3path_layer_requirements_txt(b)
ApplyVersionPaths ==
    /\ output = None
    /\ output' = Some(
           [a |-> Segment(get_s3path_layer_zip(S3Root, input.a),
                          s3dir_layer(S3Root), "layer.zip"),
            b |-> Segment(get_s3path_layer_requirements_txt(S3Root, input.b),
                          s3dir_layer(S3Root), "requirements.txt")])
    /\ UNCHANGED <<s3, lambdaLayers, pc, args, latest, dirBuild, response, ret, trace,
                   same, quiet, calls, permissionVars, sourceVars, touched, input>>

NextSegment == ApplyVersionPaths

SpecSegment == InitSegment /\ [][NextSegment]_vars

\* the segments are ZFILL characters wide and ordered as the versions are
SegmentsOrdered ==
    /\ Len(output[1].a) = ZFILL
    /\ Len(output[1].b) = ZFILL
    /\ input.a < input.b <=> str_lt(output[1].a, output[1].b)

\* C14 as stated: for all non-negative versions a and b the segments are 6
\* characters wide and compare as a and b do
C14_SegmentsOrderedForAll == output # None => SegmentsOrdered

\* C14 as amended: the same for all versions a and b below 10^ZFILL
C14_SegmentsOrderedBelowWidth ==
    (output # None /\ input.a < 10^ZFILL /\ input.b < 10^ZFILL) => SegmentsOrdered

\* the segments of 999999 and 100 were derived
C14_Witness ==
    /\ input = [a |-> 999999, b |-> 100]
    /\ output = Some([a |-> "999999", b |-> "000100"])

(***************************************************************************)
(* The source pipeline (source.py): publish_source_artifacts =             *)
(* build_source_artifacts, then upload_source_artifacts, step by step.     *)
(***************************************************************************)
MaxSourceCalls == 2

\* the source pipeline is single-threaded and synchronous: one caller runs it,
\* one call after the other
SourceCallers == {"p1"}

SourceVersions == {"0.1.1", "0.1.2"}
FlagNames == <<"use_pip", "use_build", "use_poetry", "use_pathlib">>
Flags == [{FlagNames[i] : i \in 1..Len(FlagNames)} -> BOOLEAN]

\* the project: its root directory is missing, or holds the package with one
\* module of the given content
Projects == {None, Some("x")}
ProjectRoot == "/home/project"
DirDeploy == "/home/project/build/deploy"

\* sum(lst) of a list of bool
RECURSIVE sum(_)
sum(lst) ==
    IF lst = <<>> THEN 0 ELSE (IF Head(lst) THEN 1 ELSE 0) + sum(Tail(lst))

\* raise ValueError(f"Expected exactly one True, but got {lst}")
ExpectedOneTrue(lst) == [kind |-> "raised", error |-> "ValueError", got |-> lst]

\* faulty variant: only the absence of every flag is rejected
ensure_at_least_one_true(lst) ==
    IF sum(lst) = 0 THEN Some(ExpectedOneTrue(lst)) ELSE None

\* ensure_exact_one_true(lst): the error it raises, if any
ensure_exact_one_true(lst) ==
    IF sum(lst) # 1 THEN Some(ExpectedOneTrue(lst)) ELSE None

\* the branch of the if / elif chain of build_source_artifacts that runs
Strategy(flags) ==
    IF flags["use_pip"] THEN "pip"
    ELSE IF flags["use_build"] THEN "build"
    ELSE IF flags["use_poetry"] THEN "poetry"
    ELSE IF flags["use_pathlib"] THEN "pathlib"
    ELSE "none"

\* deploy/ as mkdir leaves it, and with the package in it
EmptyDeploy == ("deploy" :> Dir)
PackageTree(project) ==
    IF project = None THEN EmptyDeploy
    ELSE ("deploy/pkg" :> Dir) @@ ("deploy/pkg/__init__.py" :> File(<<project[1]>>))
         @@ EmptyDeploy
\* pip install --target also writes the metadata of the distribution
PipTree(project) == ("deploy/pkg.dist-info" :> File(<<"meta">>)) @@ PackageTree(project)

\* the call ends with outcome r; its arguments are gone, its trace stays
FinishSource(p, r) ==
    /\ pc' = [pc EXCEPT ![p] = "idle"]
    /\ ret' = [ret EXCEPT ![p] = r @@ [repeat |-> ""]]
    /\ args' = [args EXCEPT ![p] = [op |-> ""]]

\* p moves on to the step `next`, having taken the step `name`
Step(p, next, name) ==
    /\ pc' = [pc EXCEPT ![p] = next]
    /\ trace' = [trace EXCEPT ![p] = Append(@, name)]
    /\ UNCHANGED args

\* temp_cwd(path), up to the yield: ValueError unless path is a directory, else
\* remember os.getcwd() and os.chdir(path).  build_dist.py and utils.py each
\* define it, alike; source.py imports it from vendor.better_pathlib under the
\* same name
TempCwdEnter(p, path, isdir, next, name) ==
    IF ~isdir
    THEN /\ FinishSource(p, Raised("ValueError"))
         /\ trace' = [trace EXCEPT ![p] = Append(@, name)]
         /\ UNCHANGED <<cwd, locals>>
    ELSE /\ locals' = [locals EXCEPT ![p].cwd = Some(cwd[p])]
         /\ cwd' = [cwd EXCEPT ![p] = path]
         /\ Step(p, next, name)
         /\ UNCHANGED ret

\* faulty variant: the directory is restored only when the body did not raise
RestoreOnSuccess(p, failed) ==
    /\ cwd' = [cwd EXCEPT ![p] = IF failed THEN @ ELSE locals[p].cwd[1]]
    /\ locals' = [locals EXCEPT ![p].cwd = None]

\* temp_cwd, the finally clause: os.chdir(cwd)
Restore(p, failed) ==
    /\ cwd' = [cwd EXCEPT ![p] = locals[p].cwd[1]]
    /\ locals' = [locals EXCEPT ![p].cwd = None]

\* a caller invokes publish_source_artifacts(version, use_pip, use_build, ...)
CallPublishSourceArtifacts(p) ==
    /\ p \in SourceCallers
    /\ pc[p] = "idle"
    /\ calls < MaxSourceCalls
    /\ \E f \in Flags, v \in SourceVersions, pr \in Projects :
         args' = [args EXCEPT ![p] = [op |-> "publish_source_artifacts",
                                      flags |-> f, version |-> v, project |-> pr]]
    /\ pc' = [pc EXCEPT ![p] = "src_validate"]
    /\ trace' = [trace EXCEPT ![p] = <<>>]
    /\ locals' = [locals EXCEPT ![p] = NoLocals]
    /\ before' = [before EXCEPT ![p] = s3]
    /\ calls' = calls + 1
    /\ UNCHANGED <<s3, lambdaLayers, latest, dirBuild, response, ret, same, quiet,
                   policy, revision, srcBuild, cwd, touched, functionVars>>

\* build_source_artifacts: ensure_exact_one_true([use_pip, use_build, ...])
ValidateFlags(p) ==
    /\ pc[p] = "src_validate"
    /\ LET e == ensure_exact_one_true(
                    [i \in 1..Len(FlagNames) |-> args[p].flags[FlagNames[i]]])
       IN  IF e # None
           THEN /\ FinishSource(p, e[1])
                /\ trace' = [trace EXCEPT ![p] = Append(@, "validate")]
           ELSE /\ Step(p, "src_clean", "validate")
                /\ UNCHANGED ret
    /\ UNCHANGED <<s3, lambdaLayers, latest, dirBuild, response, same, quiet,
                   calls, permissionVars, sourceVars, touched, functionVars>>

\* build_source_artifacts: shutil.rmtree(dir_build); dir_deploy.mkdir(parents=True)
CleanBuild(p) ==
    /\ pc[p] = "src_clean"
    /\ srcBuild' = [srcBuild EXCEPT ![p] = [deploy |-> Some(EmptyDeploy),
                                            source_zip |-> None]]
    /\ dirBuild' = [dirBuild EXCEPT ![p] = EmptyDir]
    /\ Step(p, "src_install", "clean")
    /\ UNCHANGED <<s3, lambdaLayers, latest, response, ret, same, quiet, calls,
                   permissionVars, cwd, locals, touched, functionVars>>

\* everything the local steps of the source pipeline leave alone
LocalStepUnchanged ==
    UNCHANGED <<s3, lambdaLayers, latest, dirBuild, response, same, quiet, calls,
                permissionVars, touched, functionVars>>

\* build_source_artifacts: the if / elif chain over the flags.  pip, python-build
\* and poetry run inside temp_cwd(dir_project_root); pathlib copies the files
InstallPythonLibrary(p) ==
    /\ pc[p] = "src_install"
    /\ LET strategy == Strategy(args[p].flags)
       IN  IF strategy \in {"pip", "build", "poetry"}
           THEN /\ TempCwdEnter(p, ProjectRoot, args[p].project # None,
                                "src_tool", strategy)
                /\ UNCHANGED srcBuild
           ELSE /\ srcBuild' = [srcBuild EXCEPT ![p].deploy =
                       IF strategy = "pathlib" THEN Some(PackageTree(args[p].project))
                       ELSE @]
                /\ Step(p, "src_copy", strategy)
                /\ UNCHANGED <<ret, cwd, locals>>
    /\ LocalStepUnchanged

\* subprocess.run(args, check=True) inside temp_cwd(dir_project_root)
RunTool(p) ==
    /\ pc[p] = "src_tool"
    /\ \E ok \in BOOLEAN :
         /\ srcBuild' = [srcBuild EXCEPT ![p].deploy =
                IF ok /\ Strategy(args[p].flags) = "pip"
                THEN Some(PipTree(args[p].project)) ELSE @]
         /\ Step(p, IF ok THEN "src_tool_done" ELSE "src_tool_failed", "tool")
    /\ UNCHANGED <<ret, cwd, locals>>
    /\ LocalStepUnchanged

\* leaving temp_cwd(dir_project_root): the finally clause, then the exception of
\* the body if there was one
ExitTool(p) ==
    /\ pc[p] \in {"src_tool_done", "src_tool_failed"}
    /\ Restore(p, pc[p] = "src_tool_failed")
    /\ IF pc[p] = "src_tool_failed"
       THEN /\ FinishSource(p, Raised("CalledProcessError"))
            /\ trace' = [trace EXCEPT ![p] = Append(@, "restore")]
       ELSE /\ Step(p, IF Strategy(args[p].flags) = "pip" THEN "src_copy"
                       ELSE "src_untar", "restore")
            /\ UNCHANGED ret
    /\ UNCHANGED srcBuild
    /\ LocalStepUnchanged

\* _build_source_from_tar_gz: find the tar.gz in dist/, extract it, move the
\* package to deploy/
BuildSourceFromTarGz(p) ==
    /\ pc[p] = "src_untar"
    /\ \E outcome \in {"ok", "FileNotFoundError", "CalledProcessError"} :
         IF outcome = "ok"
         THEN /\ srcBuild' = [srcBuild EXCEPT ![p].deploy =
                                  Some(PackageTree(args[p].project))]
              /\ Step(p, "src_copy", "untar")
              /\ UNCHANGED ret
         ELSE /\ FinishSource(p, Raised(outcome))
              /\ trace' = [trace EXCEPT ![p] = Append(@, "untar")]
              /\ UNCHANGED srcBuild
    /\ UNCHANGED <<cwd, locals>>
    /\ LocalStepUnchanged

\* shutil.copy(path_lambda_function, dir_deploy / path_lambda_function.name)
CopyLambdaFunction(p) ==
    /\ pc[p] = "src_copy"
    /\ srcBuild' = [srcBuild EXCEPT ![p].deploy =
           Some(("deploy/lambda_function.py" :> File(<<"handler">>)) @@ @[1])]
    /\ Step(p, "src_zip_enter", "copy")
    /\ UNCHANGED <<ret, cwd, locals>>
    /\ LocalStepUnchanged

\* with temp_cwd(build_context.dir_deploy):
EnterDeploy(p) ==
    /\ pc[p] = "src_zip_enter"
    /\ TempCwdEnter(p, DirDeploy, srcBuild[p].deploy # None, "src_zip", "enter")
    /\ UNCHANGED srcBuild
    /\ LocalStepUnchanged

\* args.extend(glob.glob("*")); subprocess.run(args, check=True): source.zip is
\* the archive of what deploy/ holds
RunZip(p) ==
    /\ pc[p] = "src_zip"
    /\ \E ok \in BOOLEAN :
         /\ srcBuild' = [srcBuild EXCEPT ![p].source_zip =
                IF ok THEN Some(ZipOf(srcBuild[p].deploy[1])) ELSE @]
         /\ Step(p, IF ok THEN "src_zip_done" ELSE "src_zip_failed", "zip")
    /\ UNCHANGED <<ret, cwd, locals>>
    /\ LocalStepUnchanged

\* leaving temp_cwd(dir_deploy)
ExitDeploy(p) ==
    /\ pc[p] \in {"src_zip_done", "src_zip_failed"}
    /\ Restore(p, pc[p] = "src_zip_failed")
    /\ IF pc[p] = "src_zip_failed"
       THEN /\ FinishSource(p, Raised("CalledProcessError"))
            /\ trace' = [trace EXCEPT ![p] = Append(@, "restore")]
       ELSE /\ Step(p, "src_hash", "restore")
            /\ UNCHANGED ret
    /\ UNCHANGED srcBuild
    /\ LocalStepUnchanged

\* source_sha256 = hashes.of_paths([build_context.dir_deploy])
HashDeploy(p) ==
    /\ pc[p] = "src_hash"
    /\ \E order \in Orders(Below(srcBuild[p].deploy[1], "deploy")) :
         locals' = [locals EXCEPT ![p].source_sha256 =
                       Some(of_paths(srcBuild[p].deploy[1], <<"deploy">>, order).value)]
    /\ Step(p, "src_upload", "hash")
    /\ UNCHANGED <<ret, cwd, srcBuild>>
    /\ LocalStepUnchanged

\* upload_source_artifacts: s3path_source_zip = get_s3dir_source(version) / "source.zip"
s3path_source_zip(s3dir_lambda, version) ==
    get_s3dir_source(s3dir_lambda, version) \o "source.zip"

\* faulty variant: an object that is already there is left as it is
S3PutIfAbsent(bucket, key, body) ==
    IF S3Exists(bucket, key) THEN bucket ELSE (key :> body) @@ bucket

\* s3path_source_zip.upload_file(path=path_source_zip, overwrite=True)
upload_file(bucket, key, body) == S3Put(bucket, key, body)

\* upload_source_artifacts
UploadSourceZip(p) ==
    /\ pc[p] = "src_upload"
    /\ touched' = touched \cup {s3path_source_zip(S3Root, args[p].version)}
    /\ \E ok \in BOOLEAN :
         IF ok
         THEN /\ s3' = upload_file(s3, s3path_source_zip(S3Root, args[p].version),
                                   srcBuild[p].source_zip[1])
              /\ Step(p, "src_return", "upload")
              /\ quiet' = Disturb(p)
              /\ UNCHANGED ret
         ELSE /\ FinishSource(p, Raised("ClientError"))
              /\ trace' = [trace EXCEPT ![p] = Append(@, "upload")]
              /\ UNCHANGED <<s3, quiet>>
    /\ UNCHANGED <<lambdaLayers, latest, dirBuild, response, same, calls,
                   permissionVars, sourceVars, functionVars>>

\* the record publish_source_artifacts returns
SourceArtifactsDeployment(source_sha256, version) ==
    [kind |-> "SourceArtifactsDeployment",
     source_sha256 |-> source_sha256,
     path_source_zip |-> "/home/project/build/source.zip",
     s3path_source_zip |-> s3path_source_zip(S3Root, version)]

\* return SourceArtifactsDeployment(...)
ReturnSource(p) ==
    /\ pc[p] = "src_return"
    /\ FinishSource(p, SourceArtifactsDeployment(locals[p].source_sha256[1],
                                                 args[p].version))
    /\ trace' = [trace EXCEPT ![p] = Append(@, "return")]
    /\ UNCHANGED <<srcBuild, cwd, locals>>
    /\ LocalStepUnchanged

NextSource ==
    \E p \in Procs :
        \/ CallPublishSourceArtifacts(p)
        \/ ValidateFlags(p)
        \/ CleanBuild(p)
        \/ InstallPythonLibrary(p)
        \/ RunTool(p)
        \/ ExitTool(p)
        \/ BuildSourceFromTarGz(p)
        \/ CopyLambdaFunction(p)
        \/ EnterDeploy(p)
        \/ RunZip(p)
        \/ ExitDeploy(p)
        \/ HashDeploy(p)
        \/ UploadSourceZip(p)
        \/ ReturnSource(p)

SpecSource == Init /\ [][NextSource]_vars

(***************************************************************************)
(* Properties of the source pipeline.                                      *)
(***************************************************************************)
\* the flags that are true in the arguments a
TrueFlags(a) == {f \in DOMAIN a.flags : a.flags[f]}

StrategyOfFlag ==
    [use_pip |-> "pip", use_build |-> "build", use_poetry |-> "poetry",
     use_pathlib |-> "pathlib"]

InsideTempCwd ==
    {"src_tool", "src_tool_done", "src_tool_failed",
     "src_zip", "src_zip_done", "src_zip_failed"}

\* C12: build_source_artifacts raises ValueError whenever the number of true
\* flags is not one, as its first step and with the build directory, the
\* working directory and the bucket untouched; with one true flag the strategy
\* that runs is the one of that flag
C12_ExactlyOneStrategy ==
    [][\A p \in Procs :
        /\ (pc[p] = "src_validate" /\ pc'[p] # pc[p]) =>
              IF Cardinality(TrueFlags(args[p])) # 1
              THEN /\ pc'[p] = "idle"
                   /\ ret'[p].kind = "raised" /\ ret'[p].error = "ValueError"
                   /\ trace'[p] = <<"validate">>
                   /\ UNCHANGED <<s3, srcBuild, dirBuild, cwd, touched>>
              ELSE pc'[p] = "src_clean"
        /\ (pc[p] = "src_install" /\ pc'[p] # pc[p]) =>
              /\ Cardinality(TrueFlags(args[p])) = 1
              /\ \E f \in TrueFlags(args[p]) :
                     trace'[p] = <<"validate", "clean", StrategyOfFlag[f]>>
        /\ (pc[p] \notin {"idle", "src_validate"} /\ args[p].op = "publish_source_artifacts")
              => Cardinality(TrueFlags(args[p])) = 1
      ]_vars

\* a call with two flags set was rejected while the build directory of an
\* earlier call was still in place
C12_Witness ==
    /\ pc["p1"] = "idle"
    /\ ret["p1"].kind = "raised" /\ ret["p1"].error = "ValueError"
    /\ "got" \in DOMAIN ret["p1"] /\ ret["p1"].got = <<TRUE, TRUE, FALSE, FALSE>>
    /\ trace["p1"] = <<"validate">>
    /\ srcBuild["p1"].source_zip # None

\* the key {root}/source/{version}/source.zip
SourceKey(version) == "s3://bucket/lambda/source/" \o version \o "/source.zip"

\* C13: a call that returns has built and uploaded; the object at
\* {root}/source/{version}/source.zip is then the archive it built, whatever was
\* there before, and the objects of the other versions are as they were
C13_SourceAlwaysUploaded ==
    \A p \in Procs :
        (pc[p] = "idle" /\ ret[p].kind = "SourceArtifactsDeployment") =>
            LET key == ret[p].s3path_source_zip
                steps == {trace[p][i] : i \in DOMAIN trace[p]}
            IN  /\ {"clean", "zip", "hash", "upload"} \subseteq steps
                /\ \E v \in SourceVersions : key = SourceKey(v)
                /\ key \in DOMAIN s3
                /\ s3[key] = srcBuild[p].source_zip[1]
                /\ s3[key] = <<"zip", srcBuild[p].deploy[1]>>
                /\ DOMAIN s3 = DOMAIN before[p] \cup {key}
                /\ \A k \in DOMAIN before[p] \ {key} : s3[k] = before[p][k]

\* a call returned after it replaced a different archive at its version path
C13_Witness ==
    /\ pc["p1"] = "idle"
    /\ ret["p1"].kind = "SourceArtifactsDeployment"
    /\ ret["p1"].s3path_source_zip \in DOMAIN before["p1"]
    /\ before["p1"][ret["p1"].s3path_source_zip] # s3[ret["p1"].s3path_source_zip]

\* C20: outside the body of temp_cwd the working directory is the one the
\* process had before it entered, after a body that returned and after a body
\* that raised; inside it is the target; and a target that is no directory gives
\* ValueError with the working directory as it was
C20_WorkingDirectoryRestored ==
    \A p \in Procs :
        /\ pc[p] \notin InsideTempCwd => cwd[p] = StartDir
        /\ pc[p] \in InsideTempCwd => cwd[p] \in {ProjectRoot, DirDeploy}
        /\ (pc[p] = "idle" /\ ret[p].kind = "raised" /\ trace[p] # <<>>
               /\ trace[p][Len(trace[p])] \in {"pip", "build", "poetry", "enter"})
             => (ret[p].error = "ValueError" /\ cwd[p] = StartDir)

\* the packaging tool run inside temp_cwd exited non-zero and the call has raised
C20_Witness ==
    /\ pc["p1"] = "idle"
    /\ ret["p1"].kind = "raised" /\ ret["p1"].error = "CalledProcessError"
    /\ trace["p1"] = <<"validate", "clean", "build", "tool", "restore">>
    /\ cwd["p1"] = StartDir

(***************************************************************************)
(* The two pipelines over one bucket.                                      *)
(***************************************************************************)
\* one script calls deploy_layer and publish_source_artifacts, one after the other
NextPipelines ==
    \E p \in SourceCallers :
        \/ CallDeployLayer(p)
        \/ QueryLatest(p)
        \/ Decide(p)
        \/ BuildLayerArtifacts(p)
        \/ UploadLayerZip(p)
        \/ UploadRequirements(p)
        \/ PublishLayerVersion(p)
        \/ PromoteLayerZip(p)
        \/ PromoteRequirements(p)
        \/ ReturnDeployment(p)
        \/ CallPublishSourceArtifacts(p)
        \/ ValidateFlags(p)
        \/ CleanBuild(p)
        \/ InstallPythonLibrary(p)
        \/ RunTool(p)
        \/ ExitTool(p)
        \/ BuildSourceFromTarGz(p)
        \/ CopyLambdaFunction(p)
        \/ EnterDeploy(p)
        \/ RunZip(p)
        \/ ExitDeploy(p)
        \/ HashDeploy(p)
        \/ UploadSourceZip(p)
        \/ ReturnSource(p)

SpecPipelines == Init /\ [][NextPipelines]_vars

\* the layer version segments {version:06d}, written out
PaddedVersions ==
    {"000001", "000002", "000003", "000004", "000005", "000006", "000007"}

\* the remote keys of the layout, written out for the root s3://bucket/lambda/
LayoutKeys ==
    {"s3://bucket/lambda/tmp/layer.zip",
     "s3://bucket/lambda/tmp/requirements.txt",
     "s3://bucket/lambda/tmp/source.zip"}
    \cup {"s3://bucket/lambda/layer/" \o v \o "/layer.zip" : v \in PaddedVersions}
    \cup {"s3://bucket/lambda/layer/" \o v \o "/requirements.txt" : v \in PaddedVersions}
    \cup {"s3://bucket/lambda/source/0.1.1/source.zip",
          "s3://bucket/lambda/source/0.1.2/source.zip"}

\* C15: every S3 location the layer and the source pipelines read or write, and
\* every object in the bucket, is at one of the keys of the layout:
\* {root}/tmp/layer.zip, {root}/tmp/requirements.txt, {root}/tmp/source.zip,
\* {root}/layer/{version:06d}/layer.zip, {root}/layer/{version:06d}/requirements.txt
\* and {root}/source/{version}/source.zip; a source archive returned for a
\* version is at the key of that version
C15_DerivedPaths ==
    /\ touched \subseteq LayoutKeys
    /\ DOMAIN s3 \subseteq LayoutKeys
    /\ \A p \in Procs :
           (pc[p] = "src_return" /\ args[p].version = "0.1.2") =>
               "s3://bucket/lambda/source/0.1.2/source.zip" \in touched

\* both pipelines have run: a layer version was promoted to its permanent keys
\* and a source archive was uploaded
C15_Witness ==
    /\ "s3://bucket/lambda/layer/000001/layer.zip" \in touched
    /\ "s3://bucket/lambda/layer/000001/requirements.txt" \in DOMAIN s3
    /\ "s3://bucket/lambda/tmp/layer.zip" \in touched
    /\ "s3://bucket/lambda/source/0.1.1/source.zip" \in DOMAIN s3
    /\ \A p \in Procs : pc[p] = "idle"

\* the entries of the archive layer.zip in the build directory of p
LayerZipEntries(p) == DOMAIN dirBuild[p].layer_zip[1][2]

\* the packages the Lambda runtime provides, written out
RuntimePackages ==
    {"boto3", "botocore", "s3transfer", "setuptools", "pip", "wheel", "twine",
     "pytest", "_pytest"}

\* C29: layer.zip holds only entries of python/, none of them of a package whose
\* name starts with one the runtime provides, whatever else the build directory
\* held when the build started; and the layer.zip of an earlier build is gone
\* when the install has run
C29_LayerZipOnlyPython ==
    \A p \in Procs :
        /\ dirBuild[p].layer_zip # None =>
              \A q \in LayerZipEntries(p) :
                  /\ q = "python" \/ IsPrefix("python/", q)
                  /\ \A k \in RuntimePackages : ~IsPrefix("python/" \o k, q)
        /\ pc[p] = "zip" => dirBuild[p].layer_zip = None

\* the directory-form hash of deploy/ in the tree fs
DirectoryHash(fs) ==
    of_folder(fs, "deploy", CHOOSE o \in Orders(Below(fs, "deploy")) : TRUE).value

\* the digest a returned call carries is the directory-form hash of the tree
\* that is in source.zip
ReturnedHashIsDirectoryForm ==
    \A p \in Procs :
        (pc[p] = "idle" /\ ret[p].kind = "SourceArtifactsDeployment") =>
            /\ srcBuild[p].source_zip[1] = ZipOf(srcBuild[p].deploy[1])
            /\ ret[p].source_sha256 = DirectoryHash(srcBuild[p].source_zip[1][2])

\* C24: the hash of the deploy tree is computed after the packaging and before
\* the tree is archived, and the source_sha256 returned is the directory-form
\* hash of the tree whose contents are in source.zip
C24_HashBeforeArchive ==
    /\ \A p \in Procs :
           pc[p] \in {"src_zip", "src_zip_done", "src_zip_failed"} =>
               locals[p].source_sha256 # None
    /\ ReturnedHashIsDirectoryForm

\* the digest a returned call carries is the hash of the list with the one entry
\* deploy/, computed over the tree that is in source.zip
ReturnedHashIsListForm ==
    \A p \in Procs :
        (pc[p] = "idle" /\ ret[p].kind = "SourceArtifactsDeployment") =>
            /\ srcBuild[p].source_zip[1] = ZipOf(srcBuild[p].deploy[1])
            /\ ret[p].source_sha256
                   = HashOfBytes(DirectoryHash(srcBuild[p].source_zip[1][2]))

(***************************************************************************)
(* BuildContext with roots that may be unset (context.py).  A root is None *)
(* or a value; a derivation is an attribute access on the root, which      *)
(* raises AttributeError when the root is None.                            *)
(***************************************************************************)
\* Path(p).absolute()
absolute(path) ==
    IF SubSeq(path, 1, 1) = "/" THEN path ELSE StartDir \o "/" \o path

\* S3Path(uri).to_dir()
to_dir(uri) ==
    IF SubSeq(uri, Len(uri), Len(uri)) = "/" THEN uri ELSE uri \o "/"

\* BuildContext.new(dir_build, s3dir_lambda)
BuildContextNew(dir_build, s3dir_lambda) ==
    [dir_build |-> IF dir_build # None THEN Some(absolute(dir_build[1])) ELSE None,
     s3dir_lambda |-> IF s3dir_lambda # None THEN Some(to_dir(s3dir_lambda[1]))
                      ELSE None]

Derived(path) == [kind |-> "path", value |-> path]

\* self.dir_build.joinpath(name)
joinpath(root, name) ==
    IF root = None THEN Raised("AttributeError")
    ELSE Derived(root[1] \o "/" \o name)

\* faulty variant: an unset S3 root is taken to be the empty prefix
s3_derive_or_empty(root, path) ==
    Derived(path)

\* self.s3dir_lambda.joinpath(...), through s3dir_tmp, s3dir_layer, s3dir_source
s3_derive(root, path) ==
    IF root = None THEN Raised("AttributeError") ELSE Derived(path)

LocalDerivations == {"dir_python", "dir_deploy", "path_source_zip", "path_layer_zip"}

RemoteDerivations ==
    {"s3dir_tmp", "s3path_tmp_source_zip", "s3path_tmp_layer_zip",
     "s3path_tmp_layer_requirements_txt", "s3dir_source", "s3dir_layer",
     "get_s3path_layer_zip", "get_s3path_layer_requirements_txt", "get_s3dir_source"}

\* the property or method `name` of the context ctx
Derive(ctx, name, version, source_version) ==
    LET r == IF ctx.s3dir_lambda = None THEN "" ELSE ctx.s3dir_lambda[1]
    IN  CASE name = "dir_python" -> joinpath(ctx.dir_build, "python")
          [] name = "dir_deploy" -> joinpath(ctx.dir_build, "deploy")
          [] name = "path_source_zip" -> joinpath(ctx.dir_build, "source.zip")
          [] name = "path_layer_zip" -> joinpath(ctx.dir_build, "layer.zip")
          [] name = "s3dir_tmp" -> s3_derive(ctx.s3dir_lambda, s3dir_tmp(r))
          [] name = "s3path_tmp_source_zip" ->
                 s3_derive(ctx.s3dir_lambda, s3path_tmp_source_zip(r))
          [] name = "s3path_tmp_layer_zip" ->
                 s3_derive(ctx.s3dir_lambda, s3path_tmp_layer_zip(r))
          [] name = "s3path_tmp_layer_requirements_txt" ->
                 s3_derive(ctx.s3dir_lambda, s3path_tmp_layer_requirements_txt(r))
          [] name = "s3dir_source" -> s3_derive(ctx.s3dir_lambda, s3dir_source(r))
          [] name = "s3dir_layer" -> s3_derive(ctx.s3dir_lambda, s3dir_layer(r))
          [] name = "get_s3path_layer_zip" ->
                 s3_derive(ctx.s3dir_lambda, get_s3path_layer_zip(r, version))
          [] name = "get_s3path_layer_requirements_txt" ->
                 s3_derive(ctx.s3dir_lambda,
                           get_s3path_layer_requirements_txt(r, version))
          [] name = "get_s3dir_source" ->
                 s3_derive(ctx.s3dir_lambda, get_s3dir_source(r, source_version))

\* the roots a caller may give
LocalRoots == {None, Some("build"), Some("/home/project/build")}
RemoteRoots == {None, Some("s3://bucket/lambda"), Some("s3://bucket/lambda/")}

InitContext ==
    /\ InitPipelines
    /\ input \in [dir_build : LocalRoots, s3dir_lambda : RemoteRoots,
                  name : LocalDerivations \cup RemoteDerivations,
                  version : {1, 12}, source_version : SourceVersions]
    /\ output = <<>>

\* build_context = BuildContext.new(dir_build=..., s3dir_lambda=...)
NewBuildContext ==
    /\ output = <<>>
    /\ output' = <<BuildContextNew(input.dir_build, input.s3dir_lambda)>>
    /\ UNCHANGED <<s3, lambdaLayers, pc, args, latest, dirBuild, response, ret, trace,
                   same, quiet, calls, permissionVars, sourceVars, touched, input>>

\* build_context.<name>, build_context.<name>(version)
RequestDerivedPath ==
    /\ Len(output) = 1
    /\ output' = Append(output, Derive(output[1], input.name, input.version,
                                       input.source_version))
    /\ UNCHANGED <<s3, lambdaLayers, pc, args, latest, dirBuild, response, ret, trace,
                   same, quiet, calls, permissionVars, sourceVars, touched, input>>

NextContext ==
    \/ NewBuildContext
    \/ RequestDerivedPath

SpecContext == InitContext /\ [][NextContext]_vars

\* C23: constructing a context never fails, whatever roots are unset; a local
\* derivation requested of a context without dir_build fails with an error and
\* returns no path, a remote derivation requested of a context without
\* s3dir_lambda likewise; with the root set the derivation returns a path below it
C23_UnsetRootFails ==
    /\ Len(output) >= 1 =>
          /\ output[1].dir_build = None <=> input.dir_build = None
          /\ output[1].s3dir_lambda = None <=> input.s3dir_lambda = None
    /\ Len(output) = 2 =>
          LET root == IF input.name \in LocalDerivations THEN input.dir_build
                      ELSE input.s3dir_lambda
          IN  /\ root = None =>
                    (output[2].kind = "raised" /\ output[2].error = "AttributeError")
              /\ root # None =>
                    /\ output[2].kind = "path"
                    /\ IsPrefix(IF input.name \in LocalDerivations THEN "/home/"
                                ELSE "s3://bucket/lambda/", output[2].value)

\* the version path of a layer archive was requested of a context that has a
\* build directory and no S3 root
C23_Witness ==
    /\ input.dir_build = Some("build") /\ input.s3dir_lambda = None
    /\ input.name = "get_s3path_layer_zip"
    /\ Len(output) = 2
    /\ output[1].dir_build = Some("/home/user/build")
    /\ output[2] = Raised("AttributeError")

(***************************************************************************)
(* Arguments passed by reference: the metadata dict of                     *)
(* upload_layer_artifacts and upload_source_artifacts and the include and  *)
(* exclude lists of build_source_python_lib.  The heap maps the name of an *)
(* object to its value; an argument is NOTHING / None, a string, or a      *)
(* reference to an object of the caller; a dict is a function from keys to *)
(* values, a list a sequence.                                              *)
(***************************************************************************)
MaxReuse == 2

Ref(o) == [kind |-> "ref", ref |-> o]
Str(v) == [kind |-> "str", value |-> v]
NoArg == [kind |-> "none"]

\* metadata = {} / exclude = []: a new object, known to the function only
Allocate(heap, o, value) == (o :> value) @@ heap

\* metadata[key] = value: the object the name refers to is changed in place
SetItem(heap, o, key, value) == [heap EXCEPT ![o] = (key :> value) @@ @]

\* exclude.extend(items): the object the name refers to is changed in place
Extend(heap, o, items) == [heap EXCEPT ![o] = @ \o items]

\* upload_layer_artifacts and upload_source_artifacts: if metadata is NOTHING:
\* metadata = {}; metadata[key] = sha256; extra_args["Metadata"] = metadata
SetMetadata(heap, metadata, key, sha256) ==
    LET h1 == IF metadata = NoArg THEN Allocate(heap, "local", <<>>) ELSE heap
        o == IF metadata = NoArg THEN "local" ELSE metadata.ref
        h2 == SetItem(h1, o, key, sha256)
    IN  [heap |-> h2, Metadata |-> h2[o]]

\* build_source_python_lib: a list argument that is None becomes [], a string
\* becomes [string], a list stays the object it is
AsList(heap, arg, o) ==
    IF arg = NoArg THEN [heap |-> Allocate(heap, o, <<>>), ref |-> o]
    ELSE IF arg.kind = "str" THEN [heap |-> Allocate(heap, o, <<arg.value>>), ref |-> o]
    ELSE [heap |-> heap, ref |-> arg.ref]

\* build_source_python_lib: include and exclude are made lists, then
\* exclude.extend(["__pycache__", "*.pyc", "*.pyo"])
NormalisePatterns(heap, include, exclude) ==
    LET i == AsList(heap, include, "local_include")
        e == AsList(i.heap, exclude, "local_exclude")
        h == Extend(e.heap, e.ref, <<"__pycache__", "*.pyc", "*.pyo">>)
    IN  [heap |-> h, include |-> h[i.ref], exclude |-> h[e.ref]]

\* the value an argument has for the function that receives it
ValueOf(heap, arg) ==
    IF arg = NoArg THEN NoArg ELSE IF arg.kind = "str" THEN arg.value ELSE heap[arg.ref]

\* the objects of the caller: a metadata dict and two pattern lists
CallerObjects == {"metadata", "include", "exclude"}

CallerHeaps ==
    [metadata : {<<>>, [project |-> "x"]},
     include : {<<>>, <<"*.py">>},
     exclude : {<<>>, <<"*.txt">>}]

Operations == {"upload_layer_artifacts", "upload_source_artifacts", "build_source_python_lib"}

InitArguments ==
    /\ InitPipelines
    /\ \E op \in Operations, h \in CallerHeaps :
         \E m \in {NoArg, Ref("metadata")} :
           \E i \in {NoArg, Str("*.py"), Ref("include")} :
             \E e \in {NoArg, Str("*.txt"), Ref("exclude")} :
               /\ (op = "build_source_python_lib") => m = NoArg
               /\ (op # "build_source_python_lib") => (i = NoArg /\ e = NoArg)
               /\ input = [op |-> op, heap |-> h, metadata |-> m, include |-> i,
                           exclude |-> e]
    /\ output = [heap |-> input.heap, calls |-> <<>>]

ArgumentsUnchanged ==
    UNCHANGED <<s3, lambdaLayers, pc, args, latest, dirBuild, response, ret, trace,
                same, quiet, calls, permissionVars, sourceVars, touched, input>>

\* the caller's objects after a call: what the function allocated is gone
Return(heap) == [o \in CallerObjects |-> heap[o]]

\* upload_layer_artifacts(..., layer_sha256, metadata=metadata), also as
\* deploy_layer calls it with the metadata it was given
ApplyUploadLayerArtifacts ==
    /\ input.op = "upload_layer_artifacts"
    /\ Len(output.calls) < MaxReuse
    /\ \E sha256 \in {"h1", "h2"} :
         LET r == SetMetadata(output.heap, input.metadata, "layer_sha256", sha256)
         IN  output' = [heap |-> Return(r.heap),
                        calls |-> Append(output.calls,
                            [metadata |-> ValueOf(output.heap, input.metadata),
                             Metadata |-> r.Metadata])]
    /\ ArgumentsUnchanged

\* upload_source_artifacts(..., source_sha256, metadata=metadata), also as
\* publish_source_artifacts calls it
ApplyUploadSourceArtifacts ==
    /\ input.op = "upload_source_artifacts"
    /\ Len(output.calls) < MaxReuse
    /\ \E sha256 \in {"h1", "h2"} :
         LET r == SetMetadata(output.heap, input.metadata, "source_sha256", sha256)
         IN  output' = [heap |-> Return(r.heap),
                        calls |-> Append(output.calls,
                            [metadata |-> ValueOf(output.heap, input.metadata),
                             Metadata |-> r.Metadata])]
    /\ ArgumentsUnchanged

\* build_source_python_lib(source, target, include=include, exclude=exclude)
ApplyBuildSourcePythonLib ==
    /\ input.op = "build_source_python_lib"
    /\ Len(output.calls) < MaxReuse
    /\ LET r == NormalisePatterns(output.heap, input.include, input.exclude)
       IN  output' = [heap |-> Return(r.heap),
                      calls |-> Append(output.calls,
                          [include |-> ValueOf(output.heap, input.include),
                           exclude |-> ValueOf(output.heap, input.exclude),
                           patterns |-> <<r.include, r.exclude>>])]
    /\ ArgumentsUnchanged

NextArguments ==
    \/ ApplyUploadLayerArtifacts
    \/ ApplyUploadSourceArtifacts
    \/ ApplyBuildSourcePythonLib

SpecArguments == InitArguments /\ [][NextArguments]_vars

\* C30: after each call the caller's metadata dict has the entries it had before
\* and its include and exclude lists the elements they had before, so every call
\* that reuses them receives what the first call received
C30_ArgumentsUnchanged ==
    /\ output.heap = input.heap
    /\ \A k \in 1..Len(output.calls) :
           IF input.op = "build_source_python_lib"
           THEN /\ output.calls[k].include = ValueOf(input.heap, input.include)
                /\ output.calls[k].exclude = ValueOf(input.heap, input.exclude)
           ELSE output.calls[k].metadata = ValueOf(input.heap, input.metadata)

\* the part of C30 that holds: the include list is left as it was, and so is
\* every object when the argument was not given or was a string
UnreferencedUnchanged ==
    /\ output.heap.include = input.heap.include
    /\ input.metadata = NoArg => output.heap.metadata = input.heap.metadata
    /\ input.exclude.kind # "ref" => output.heap.exclude = input.heap.exclude
====
